---- MODULE Spec2Model ----
(***************************************************************************)
(* Attendance tracker: bulk ingest (ExcelProcessor.saveToDatabase), the    *)
(* upload route that drives it, and the cached read side                   *)
(* (AttendanceService) over the three tables students, courses and         *)
(* attendance_records.                                                     *)
(*                                                                         *)
(* One step of the model is one database round trip (or the synchronous    *)
(* code between two awaits), so that concurrent requests interleave        *)
(* exactly where the Node event loop lets them.                            *)
(***************************************************************************)
EXTENDS Integers, Sequences, FiniteSets, TLC

VARIABLES
    students,     \* table students:            rows [id, user, reg, name]
    courses,      \* table courses:             rows [id, user, code, name]
    attendance,   \* table attendance_records:  rows [id, user, student_id, course_id, attended, conducted, pct]
    nextId,       \* the three SERIAL sequences: [s, c, a]
    up,           \* upload requests: handler position and saveToDatabase locals, per slot
    started,      \* number of files handed to the upload route so far
    cache,        \* AttendanceService's process-wide Map: key -> [data, timestamp]
    now,          \* Date.now()
    ticks,        \* number of clock advances so far
    rd,           \* read requests (cached and filtered reads), per slot
    adm,          \* clearAllData / deleteAttendanceRecord calls, per slot
    ops,          \* number of clears and deletes issued so far
    reads,        \* number of reads issued so far
    writes,       \* history: number of statements so far that changed a table
    invalidatedAt \* history: the latest change (as a value of writes) whose own
                  \* operation has since called invalidateCache()

vars == <<students, courses, attendance, nextId, up, started, cache, now, ticks, rd, adm, ops,
          reads, writes, invalidatedAt>>

dbVars == <<students, courses, attendance, nextId, writes>>

cacheVars == <<cache, invalidatedAt>>

rdVars == <<rd, reads>>

clock == <<now, ticks>>

----------------------------------------------------------------------------
(* Bounds *)

MaxUploads == 2      \* files handed to the upload route in one behaviour
MaxOps     == 2      \* clears and deletes issued in one behaviour
MaxReads   == 2      \* reads issued in one behaviour
MaxTicks   == 1      \* clock advances in one behaviour

(* Program constants *)

MIN_CONDUCTED_PERIODS == 5
maxRetries            == 2
batchSize             == 100
CACHE_TTL             == 60000
STATS_TTL             == 60000
COURSES_TTL           == 300000

Users == {"u1", "u2"}

NoData == [students |-> <<>>, courses |-> <<>>, attendance |-> <<>>]

----------------------------------------------------------------------------
(* Generic helpers *)

Range(s) == {s[i] : i \in DOMAIN s}

Min(a, b) == IF a < b THEN a ELSE b

Max(a, b) == IF a > b THEN a ELSE b

RECURSIVE Dedup(_)
Dedup(s) ==
    IF s = <<>> THEN <<>>
    ELSE LET h == Head(s)
             t == Dedup(Tail(s))
         IN  <<h>> \o SelectSeq(t, LAMBDA x : x # h)

EmptyMap == [x \in {} |-> 0]

----------------------------------------------------------------------------
(* Extracted file data (ProcessedData): what processWorksheet hands to     *)
(* saveToDatabase.  students keeps one entry per accepted sheet row, so a  *)
(* registration number may repeat; attendance tuples only name students    *)
(* and courses of the same file.                                           *)

St(reg, name) == [reg |-> reg, name |-> name]

Co(code, name) == [code |-> code, name |-> name]

At(reg, code, att, cond, pct) ==
    [reg |-> reg, code |-> code, attended |-> att, conducted |-> cond, pct |-> pct]

\* two students, one course, both tuples qualifying (30/40 and 38/40)
DataA == [students   |-> <<St("r1", "Asha"), St("r2", "Ravi")>>,
          courses    |-> <<Co("c1", "Maths")>>,
          attendance |-> <<At("r1", "c1", 30, 40, 75), At("r2", "c1", 38, 40, 95)>>]

\* the same students and course with other values; the second tuple is below the minimum
DataB == [students   |-> <<St("r1", "Asha"), St("r2", "Ravi")>>,
          courses    |-> <<Co("c1", "Maths")>>,
          attendance |-> <<At("r1", "c1", 3, 6, 50), At("r2", "c1", 2, 4, 50)>>]

\* one registration number on two rows, two courses
DataC == [students   |-> <<St("r1", "Asha"), St("r1", "Asha")>>,
          courses    |-> <<Co("c1", "Maths"), Co("c2", "Physics")>>,
          attendance |-> <<At("r1", "c1", 5, 5, 100), At("r1", "c2", 1, 4, 25),
                           At("r1", "c1", 6, 10, 60)>>]

\* another student of the same course
DataD == [students   |-> <<St("r3", "Tara")>>,
          courses    |-> <<Co("c1", "Maths")>>,
          attendance |-> <<At("r3", "c1", 6, 10, 60)>>]

\* no tuple reaches the minimum conducted periods
DataE == [students   |-> <<St("r2", "Ravi")>>,
          courses    |-> <<Co("c2", "Physics")>>,
          attendance |-> <<At("r2", "c2", 2, 3, 66)>>]

Datas == {DataA, DataB, DataC, DataD, DataE}

\* an uploaded file: its extension, whether processExcelFileFromMemory
\* returns data (parsed) or null, and the data it returns
GoodFile(d) == [ext |-> "xlsx", parsed |-> TRUE, data |-> d]

CsvFile(d) == [ext |-> "csv", parsed |-> TRUE, data |-> d]

UnreadableFile == [ext |-> "xlsx", parsed |-> FALSE, data |-> NoData]

WrongTypeFile == [ext |-> "txt", parsed |-> FALSE, data |-> NoData]

GoodFiles == {GoodFile(d) : d \in Datas}

allowed == {"xlsx", "xls", "csv"}

----------------------------------------------------------------------------
(* The database: the statements the code sends, with the UNIQUE and        *)
(* FOREIGN KEY constraints of runMigrations.                               *)

\* SELECT id, course_code FROM courses WHERE user_id = $1 AND course_code = ANY($2)
SelectCourses(tbl, u, codes) == {c \in tbl : c.user = u /\ c.code \in codes}

\* the existence lookup of the students finding nothing
SelectStudentsNone(tbl, u, regs) == {}

\* SELECT id, registration_no FROM students WHERE user_id = $1 AND registration_no = ANY($2)
SelectStudents(tbl, u, regs) == {s \in tbl : s.user = u /\ s.reg \in regs}

\* the existing-attendance lookup finding nothing
SelectAttendanceNone(tbl, u, sids, cids) == {}

\* SELECT student_id, course_id FROM attendance_records
\*  WHERE user_id = $1 AND student_id = ANY($2) AND course_id = ANY($3)
SelectAttendance(tbl, u, sids, cids) ==
    {a \in tbl : a.user = u /\ a.student_id \in sids /\ a.course_id \in cids}

\* UNIQUE(user_id, course_code)
CourseConflict(tbl, u, code) == \E c \in tbl : c.user = u /\ c.code = code

\* students created without its UNIQUE constraint
StudentConflictNever(tbl, u, reg) == FALSE

\* UNIQUE(user_id, registration_no)
StudentConflict(tbl, u, reg) == \E s \in tbl : s.user = u /\ s.reg = reg

\* attendance_records created without its UNIQUE constraint
AttendanceConflictNever(tbl, u, sid, cid) == FALSE

\* UNIQUE(user_id, student_id, course_id)
AttendanceConflict(tbl, u, sid, cid) ==
    \E a \in tbl : a.user = u /\ a.student_id = sid /\ a.course_id = cid

\* INSERT INTO courses ... ON CONFLICT (user_id, course_code) DO NOTHING RETURNING id, course_code
\* rows: the VALUES list in order; result: the table, the sequence and the returned rows
RECURSIVE InsertCourses(_, _, _, _)
InsertCourses(tbl, nid, u, rows) ==
    IF rows = <<>> THEN [tbl |-> tbl, nid |-> nid, returned |-> {}]
    ELSE LET r == Head(rows) IN
         IF CourseConflict(tbl, u, r.code)
         THEN InsertCourses(tbl, nid, u, Tail(rows))
         ELSE LET new  == [id |-> nid, user |-> u, code |-> r.code, name |-> r.name]
                  rest == InsertCourses(tbl \cup {new}, nid + 1, u, Tail(rows))
              IN  [rest EXCEPT !.returned = @ \cup {new}]

\* INSERT INTO students ... ON CONFLICT (user_id, registration_no) DO NOTHING RETURNING id, registration_no
RECURSIVE InsertStudents(_, _, _, _)
InsertStudents(tbl, nid, u, rows) ==
    IF rows = <<>> THEN [tbl |-> tbl, nid |-> nid, returned |-> {}]
    ELSE LET r == Head(rows) IN
         IF StudentConflict(tbl, u, r.reg)
         THEN InsertStudents(tbl, nid, u, Tail(rows))
         ELSE LET new  == [id |-> nid, user |-> u, reg |-> r.reg, name |-> r.name]
                  rest == InsertStudents(tbl \cup {new}, nid + 1, u, Tail(rows))
              IN  [rest EXCEPT !.returned = @ \cup {new}]

\* an upsert: ON CONFLICT ... DO UPDATE SET the three values
OnConflictUpdate(tbl, u, r) ==
    {IF a.user = u /\ a.student_id = r.student_id /\ a.course_id = r.course_id
     THEN [a EXCEPT !.attended = r.attended, !.conducted = r.conducted, !.pct = r.pct]
     ELSE a : a \in tbl}

\* what becomes of a row whose key is already present: ON CONFLICT ... DO NOTHING
OnConflict(tbl, u, r) == tbl

\* INSERT INTO attendance_records ... ON CONFLICT (user_id, student_id, course_id) DO NOTHING
RECURSIVE InsertAttendance(_, _, _, _)
InsertAttendance(tbl, nid, u, rows) ==
    IF rows = <<>> THEN [tbl |-> tbl, nid |-> nid]
    ELSE LET r == Head(rows) IN
         IF AttendanceConflict(tbl, u, r.student_id, r.course_id)
         THEN InsertAttendance(OnConflict(tbl, u, r), nid, u, Tail(rows))
         ELSE LET new == [id |-> nid, user |-> u, student_id |-> r.student_id,
                          course_id |-> r.course_id, attended |-> r.attended,
                          conducted |-> r.conducted, pct |-> r.pct]
              IN  InsertAttendance(tbl \cup {new}, nid + 1, u, Tail(rows))

\* an INSERT without ON CONFLICT: a row whose key is present fails the statement
UniqueViolationRaised(conflict) == conflict

\* whether the statement fails with a unique violation when one of its rows
\* has a key that is present: with ON CONFLICT (...) DO NOTHING it never does
UniqueViolation(conflict) == FALSE

\* columns without the REFERENCES constraints
ForeignKeysUnchecked(rows) == TRUE

\* student_id REFERENCES students(id), course_id REFERENCES courses(id):
\* the statement fails when a row to insert names a missing parent
ForeignKeysOk(rows) ==
    \A i \in DOMAIN rows :
        /\ \E s \in students : s.id = rows[i].student_id
        /\ \E c \in courses : c.id = rows[i].course_id


----------------------------------------------------------------------------
(* The upload route (POST /upload) and ExcelProcessor.saveToDatabase.      *)
(* up[p] is one request: the handler's loop position and counters, and     *)
(* the locals of the saveToDatabase call it is waiting for.                *)

UpSlots == {1, 2}

IdleUp == [pc |-> "idle", user |-> "u1", files |-> <<>>, idx |-> 1,
           processed |-> 0, errors |-> 0, file_logs |-> <<>>, response |-> "none",
           attempt |-> 0, courseMap |-> EmptyMap, newCourseCodes |-> <<>>,
           studentMap |-> EmptyMap, newStudents |-> <<>>,
           i |-> 0, attendanceSet |-> {}, toInsert |-> <<>>, skippedDuplicate |-> 0,
           lastWrite |-> 0, error |-> "none"]

\* processedData of the file the handler is at
Data(r) == r.files[r.idx].data

\* incomingCourseCodes: Array.from(new Set(Object.values(courses).map(c => c.code)))
incomingCourseCodes(d) == Dedup([k \in DOMAIN d.courses |-> d.courses[k].code])

\* Object.values(processedData.courses).find(c => c.code === code)
CourseInfoOf(d, code) ==
    d.courses[CHOOSE k \in DOMAIN d.courses :
                 /\ d.courses[k].code = code
                 /\ \A j \in DOMAIN d.courses : d.courses[j].code = code => k <= j]

\* incomingRegNos: students.map(s => s.registration_no).filter(Boolean)
incomingRegNos(d) == {d.students[k].reg : k \in DOMAIN d.students} \ {""}

\* new Map(rows.map(c => [c.course_code, c])): key -> id of the row
MapOfCourses(rows) == [code \in {c.code : c \in rows} |-> (CHOOSE c \in rows : c.code = code).id]

MapOfStudents(rows) == [reg \in {s.reg : s \in rows} |-> (CHOOSE s \in rows : s.reg = reg).id]

\* createResult.rows.forEach(c => courseMap.set(c.course_code, c))
SetAll(map, added) ==
    [k \in DOMAIN map \cup DOMAIN added |-> IF k \in DOMAIN added THEN added[k] ELSE map[k]]

\* the rows the batched insert returns to the caller: RETURNING id, course_code
\* lists the rows this statement inserted, not the ones that lost a conflict
ReturnedRows(res) == res.returned

\* the filter of step 3 left out
QualifiesAlways(a) == TRUE

\* processedData.attendance.filter(a => a.conducted_periods >= MIN_CONDUCTED_PERIODS)
Qualifies(a) == a.conducted >= MIN_CONDUCTED_PERIODS

filteredAttendance(d) == SelectSeq(d.attendance, Qualifies)

\* student && course
Resolves(r, a) == a.reg \in DOMAIN r.studentMap /\ a.code \in DOMAIN r.courseMap

\* pairs: the resolved (student_id, course_id) of the qualifying tuples
Pairs(r) ==
    LET res == SelectSeq(filteredAttendance(Data(r)), LAMBDA a : Resolves(r, a))
    IN  [k \in DOMAIN res |-> <<r.studentMap[res[k].reg], r.courseMap[res[k].code]>>]

\* step 5: partition the resolved qualifying tuples against attendanceSet
ToInsert(r, set) ==
    LET res == SelectSeq(filteredAttendance(Data(r)),
                         LAMBDA a : Resolves(r, a)
                                    /\ <<r.studentMap[a.reg], r.courseMap[a.code]>> \notin set)
    IN  [k \in DOMAIN res |->
            [student_id |-> r.studentMap[res[k].reg], course_id |-> r.courseMap[res[k].code],
             attended |-> res[k].attended, conducted |-> res[k].conducted, pct |-> res[k].pct]]

SkippedDuplicate(r, set) ==
    Len(SelectSeq(filteredAttendance(Data(r)),
                  LAMBDA a : Resolves(r, a)
                             /\ <<r.studentMap[a.reg], r.courseMap[a.code]>> \in set))

\* the tuples of the file that the maps of the run do not resolve (history:
\* the code returns at line 685 for them and counts nothing)
Unresolved(r) == Len(SelectSeq(Data(r).attendance, LAMBDA a : ~Resolves(r, a)))

\* the metrics of the short-circuit return (no qualifying tuple)
ShortMetrics(r) ==
    [courses_new |-> Len(r.newCourseCodes),
     courses_existing |-> Cardinality(DOMAIN r.courseMap) - Len(r.newCourseCodes),
     students_new |-> Len(r.newStudents),
     students_existing |-> Cardinality(DOMAIN r.studentMap) - Len(r.newStudents),
     total_in_file |-> Len(Data(r).attendance),
     inserted |-> 0,
     skipped_min_periods |-> Len(Data(r).attendance) - Len(filteredAttendance(Data(r))),
     skipped_duplicate |-> 0,
     unresolved |-> Unresolved(r)]

\* the metrics of the normal return
FullMetrics(r) ==
    [courses_new |-> Len(r.newCourseCodes),
     courses_existing |-> Max(Cardinality(DOMAIN r.courseMap) - Len(r.newCourseCodes), 0),
     students_new |-> Len(r.newStudents),
     students_existing |-> Cardinality(DOMAIN r.studentMap) - Len(r.newStudents),
     total_in_file |-> Len(Data(r).attendance),
     inserted |-> Len(r.toInsert),
     skipped_min_periods |-> Len(Data(r).attendance) - Len(filteredAttendance(Data(r))),
     skipped_duplicate |-> r.skippedDuplicate,
     unresolved |-> Unresolved(r)]

\* a next call that found the maps and lists of the previous one
NoLocalsKept(r) == r

\* the locals of saveToDatabase before an attempt runs (and after it returned)
NoLocals(r) ==
    [r EXCEPT !.courseMap = EmptyMap, !.newCourseCodes = <<>>,
              !.studentMap = EmptyMap, !.newStudents = <<>>,
              !.i = 0, !.attendanceSet = {}, !.toInsert = <<>>, !.skippedDuplicate = 0]

\* where the handler goes when a file could not be processed (upload.ts 61-72)
OnFileFailure(r) ==
    [NoLocals(r) EXCEPT !.errors = @ + 1, !.response = "error500", !.pc = "responded"]

\* `for (const file of files)` from the file at idx up to the next await on the
\* database: skip files of a wrong type, parse, and call saveToDatabase
RECURSIVE NextFile(_)
NextFile(r) ==
    IF r.idx > Len(r.files) THEN [r EXCEPT !.pc = "respond"]
    ELSE IF r.files[r.idx].ext \notin allowed
         THEN NextFile([r EXCEPT !.errors = @ + 1, !.idx = @ + 1])
         ELSE IF ~r.files[r.idx].parsed
              THEN OnFileFailure(r)
              ELSE [r EXCEPT !.pc = "courses_select", !.attempt = 0, !.error = "none"]

\* the handler's continuation after `await saveToDatabase(...)`
AfterSave(r, success, metrics) ==
    IF success
    THEN NextFile([NoLocals(r) EXCEPT !.processed = @ + 1,
                                      !.file_logs = Append(@, metrics), !.idx = @ + 1])
    ELSE OnFileFailure(r)

\* a catch block that gives up one attempt later
CaughtOffByOne(r) ==
    IF r.attempt = maxRetries
    THEN AfterSave(r, FALSE, ShortMetrics(r))
    ELSE [NoLocals(r) EXCEPT !.attempt = @ + 1, !.pc = "courses_select"]

\* the catch block of saveToDatabase: give up on the last attempt, else start
\* over (after the 500 ms wait); r.error is the err that was caught
Caught(r) ==
    IF r.attempt = maxRetries - 1
    THEN AfterSave(r, FALSE, ShortMetrics(r))
    ELSE [NoLocals(r) EXCEPT !.attempt = @ + 1, !.pc = "courses_select"]

\* step 5 and what follows it, once attendanceSet is complete
Prepared(r) ==
    LET r2 == [r EXCEPT !.toInsert = ToInsert(r, r.attendanceSet),
                        !.skippedDuplicate = SkippedDuplicate(r, r.attendanceSet)]
    IN  IF Len(r2.toInsert) > 0
        THEN [r2 EXCEPT !.pc = "attendance_insert"]
        ELSE AfterSave(r2, TRUE, FullMetrics(r2))

\* step 3 and the branch after it, once both maps are built
AfterStudents(r) ==
    IF Len(filteredAttendance(Data(r))) = 0
    THEN AfterSave(r, TRUE, ShortMetrics(r))
    ELSE IF Len(Pairs(r)) > 0
         THEN [r EXCEPT !.pc = "attendance_select", !.i = 0, !.attendanceSet = {}]
         ELSE Prepared([r EXCEPT !.attendanceSet = {}])

\* AttendanceService.invalidateCache(): cache.clear()
invalidateCache(c) == [k \in {} |-> 0]

\* POST /upload with the files fs for the authenticated user u: the handler
\* runs up to its first database round trip
UploadRequest(p, u, fs) ==
    /\ up[p].pc \in {"idle", "responded"}
    /\ \A q \in UpSlots : q < p => up[q].pc \notin {"idle", "responded"}
    /\ started + Len(fs) <= MaxUploads
    /\ up' = [up EXCEPT ![p] = NextFile([IdleUp EXCEPT !.user = u, !.files = fs])]
    /\ started' = started + Len(fs)
    /\ UNCHANGED <<dbVars, cacheVars, clock, rdVars, adm, ops>>

\* after the loop: invalidate the cache and answer 200, or answer the aggregate error
UploadRespond(p) ==
    LET r == up[p] IN
    /\ r.pc = "respond"
    /\ cache' = IF r.processed > 0 THEN invalidateCache(cache) ELSE cache
    /\ invalidatedAt' = IF r.processed > 0 THEN Max(invalidatedAt, r.lastWrite) ELSE invalidatedAt
    /\ up' = [up EXCEPT ![p] = [r EXCEPT !.pc = "responded",
                                         !.response = IF r.processed > 0 THEN "ok200" ELSE "error500"]]
    /\ UNCHANGED <<dbVars, started, clock, rdVars, adm, ops>>

\* saveToDatabase step 1: the existence lookup of the incoming course codes
CoursesSelect(p) ==
    LET r        == up[p]
        incoming == incomingCourseCodes(Data(r))
        map      == MapOfCourses(SelectCourses(courses, r.user, Range(incoming)))
        new      == SelectSeq(incoming, LAMBDA code : code \notin DOMAIN map)
    IN
    /\ r.pc = "courses_select"
    /\ up' = [up EXCEPT ![p] = [r EXCEPT !.courseMap = map, !.newCourseCodes = new,
                                         !.pc = IF Len(new) > 0 THEN "courses_insert"
                                                ELSE "students_select"]]
    /\ UNCHANGED <<dbVars, started, cacheVars, clock, rdVars, adm, ops>>

\* saveToDatabase step 1: the batched insert of the new courses
CoursesInsert(p) ==
    LET r    == up[p]
        rows == [k \in DOMAIN r.newCourseCodes |-> CourseInfoOf(Data(r), r.newCourseCodes[k])]
        res  == InsertCourses(courses, nextId.c, r.user, rows)
    IN
    /\ r.pc = "courses_insert"
    /\ IF UniqueViolation(\E k \in DOMAIN rows : CourseConflict(courses, r.user, rows[k].code))
       THEN /\ up' = [up EXCEPT ![p] = Caught([r EXCEPT !.error = "permanent"])]
            /\ UNCHANGED <<courses, nextId, writes>>
       ELSE /\ courses' = res.tbl
            /\ nextId' = [nextId EXCEPT !.c = res.nid]
            /\ writes' = IF res.tbl # courses THEN writes + 1 ELSE writes
            /\ up' = [up EXCEPT ![p] =
                         [r EXCEPT !.courseMap = SetAll(@, MapOfCourses(ReturnedRows(res))),
                                   !.lastWrite = IF res.tbl # courses THEN writes + 1 ELSE @,
                                   !.pc = "students_select"]]
    /\ UNCHANGED <<students, attendance, started, cacheVars, clock, rdVars, adm, ops>>

\* saveToDatabase step 2: the existence lookup of the incoming registration numbers
StudentsSelect(p) ==
    LET r   == up[p]
        d   == Data(r)
        map == MapOfStudents(SelectStudents(students, r.user, incomingRegNos(d)))
        new == SelectSeq(d.students, LAMBDA s : s.reg \notin DOMAIN map)
        r2  == [r EXCEPT !.studentMap = map, !.newStudents = new]
    IN
    /\ r.pc = "students_select"
    /\ up' = [up EXCEPT ![p] = IF Len(new) > 0 THEN [r2 EXCEPT !.pc = "students_insert"]
                               ELSE AfterStudents(r2)]
    /\ UNCHANGED <<dbVars, started, cacheVars, clock, rdVars, adm, ops>>

\* saveToDatabase step 2: the batched insert of the new students, then step 3
StudentsInsert(p) ==
    LET r   == up[p]
        res == InsertStudents(students, nextId.s, r.user, r.newStudents)
        r2  == [r EXCEPT !.studentMap = SetAll(@, MapOfStudents(ReturnedRows(res))),
                         !.lastWrite = IF res.tbl # students THEN writes + 1 ELSE @]
    IN
    /\ r.pc = "students_insert"
    /\ IF UniqueViolation(\E k \in DOMAIN r.newStudents :
                             StudentConflict(students, r.user, r.newStudents[k].reg))
       THEN /\ up' = [up EXCEPT ![p] = Caught([r EXCEPT !.error = "permanent"])]
            /\ UNCHANGED <<students, nextId, writes>>
       ELSE /\ students' = res.tbl
            /\ nextId' = [nextId EXCEPT !.s = res.nid]
            /\ writes' = IF res.tbl # students THEN writes + 1 ELSE writes
            /\ up' = [up EXCEPT ![p] = AfterStudents(r2)]
    /\ UNCHANGED <<courses, attendance, started, cacheVars, clock, rdVars, adm, ops>>

\* saveToDatabase step 4: one batch of the existing-attendance lookup
AttendanceSelect(p) ==
    LET r     == up[p]
        pairs == Pairs(r)
        batch == SubSeq(pairs, r.i + 1, Min(r.i + batchSize, Len(pairs)))
        rows  == SelectAttendance(attendance, r.user,
                                  {batch[k][1] : k \in DOMAIN batch},
                                  {batch[k][2] : k \in DOMAIN batch})
        r2    == [r EXCEPT !.attendanceSet = @ \cup {<<a.student_id, a.course_id>> : a \in rows},
                           !.i = @ + batchSize]
    IN
    /\ r.pc = "attendance_select"
    /\ up' = [up EXCEPT ![p] = IF r2.i < Len(pairs) THEN r2 ELSE Prepared(r2)]
    /\ UNCHANGED <<dbVars, started, cacheVars, clock, rdVars, adm, ops>>

\* saveToDatabase step 5: the batched insert of the attendance rows
AttendanceInsert(p) ==
    LET r   == up[p]
        res == InsertAttendance(attendance, nextId.a, r.user, r.toInsert)
        r2  == [r EXCEPT !.lastWrite = IF res.tbl # attendance THEN writes + 1 ELSE @]
    IN
    /\ r.pc = "attendance_insert"
    /\ IF /\ ForeignKeysOk(r.toInsert)
          /\ ~UniqueViolation(\E k \in DOMAIN r.toInsert :
                  AttendanceConflict(attendance, r.user,
                                     r.toInsert[k].student_id, r.toInsert[k].course_id))
       THEN /\ attendance' = res.tbl
            /\ nextId' = [nextId EXCEPT !.a = res.nid]
            /\ writes' = IF res.tbl # attendance THEN writes + 1 ELSE writes
            /\ up' = [up EXCEPT ![p] = AfterSave(r2, TRUE, FullMetrics(r2))]
       ELSE /\ up' = [up EXCEPT ![p] = Caught([r EXCEPT !.error = "permanent"])]
            /\ UNCHANGED <<attendance, nextId, writes>>
    /\ UNCHANGED <<students, courses, started, cacheVars, clock, rdVars, adm, ops>>

\* what a rejected query is: an error that would pass when tried again (a
\* dropped connection, a timeout) or one that would not
ErrorKinds == {"transient", "permanent"}

\* the query that saveToDatabase is waiting for rejects: the statement has
\* changed nothing and control goes to the catch block
DbFail(p, kind) ==
    /\ up[p].pc \in {"courses_select", "courses_insert", "students_select",
                     "students_insert", "attendance_select", "attendance_insert"}
    /\ up' = [up EXCEPT ![p] = Caught([up[p] EXCEPT !.error = kind])]
    /\ UNCHANGED <<dbVars, started, cacheVars, clock, rdVars, adm, ops>>

----------------------------------------------------------------------------
(* AttendanceService.clearAllData and deleteAttendanceRecord.              *)
(* adm[a] is one call; each DELETE is executed by the database in a step   *)
(* of its own and the call returns in a later step.                        *)

AdmSlots == {1}

IdleAdm == [pc |-> "idle", op |-> "none", user |-> "u1", rowCount |-> 0, result |-> "none",
            lastWrite |-> 0]

\* ON DELETE CASCADE: attendance rows go with their student or course
Cascade(att, studs, crs) ==
    {a \in att : (\E s \in studs : s.id = a.student_id) /\ (\E c \in crs : c.id = a.course_id)}

\* a DELETE without its WHERE clause
DeleteEveryRow(tbl, u) == {}

\* DELETE FROM <table> WHERE user_id = $1: the rows that stay
DeleteWhereUser(tbl, u) == {x \in tbl : x.user # u}

\* clearAllData: DELETE FROM attendance_records WHERE user_id = $1
ClearAttendance(a, u) ==
    /\ adm[a].pc \in {"idle", "returned"}
    /\ ops < MaxOps
    /\ ops' = ops + 1
    /\ attendance' = DeleteWhereUser(attendance, u)
    /\ writes' = IF attendance' # attendance THEN writes + 1 ELSE writes
    /\ adm' = [adm EXCEPT ![a] = [IdleAdm EXCEPT !.pc = "clear_students", !.op = "clear",
                                                 !.user = u, !.lastWrite = IF writes' # writes THEN writes' ELSE 0]]
    /\ UNCHANGED <<students, courses, nextId, up, started, cacheVars, clock, rdVars>>

\* clearAllData: DELETE FROM students WHERE user_id = $1
ClearStudents(a) ==
    /\ adm[a].pc = "clear_students"
    /\ students' = DeleteWhereUser(students, adm[a].user)
    /\ attendance' = Cascade(attendance, students', courses)
    /\ writes' = IF students' # students THEN writes + 1 ELSE writes
    /\ adm' = [adm EXCEPT ![a].pc = "clear_courses",
                          ![a].lastWrite = IF writes' # writes THEN writes' ELSE @]
    /\ UNCHANGED <<courses, nextId, up, started, cacheVars, clock, rdVars, ops>>

\* clearAllData: DELETE FROM courses WHERE user_id = $1
ClearCourses(a) ==
    /\ adm[a].pc = "clear_courses"
    /\ courses' = DeleteWhereUser(courses, adm[a].user)
    /\ attendance' = Cascade(attendance, students, courses')
    /\ writes' = IF courses' # courses THEN writes + 1 ELSE writes
    /\ adm' = [adm EXCEPT ![a].pc = "clear_return",
                          ![a].lastWrite = IF writes' # writes THEN writes' ELSE @]
    /\ UNCHANGED <<students, nextId, up, started, cacheVars, clock, rdVars, ops>>

\* clearAllData: invalidateCache(); return true
ClearReturn(a) ==
    /\ adm[a].pc = "clear_return"
    /\ cache' = invalidateCache(cache)
    /\ invalidatedAt' = Max(invalidatedAt, adm[a].lastWrite)
    /\ adm' = [adm EXCEPT ![a].pc = "returned", ![a].result = "true"]
    /\ UNCHANGED <<dbVars, up, started, clock, rdVars, ops>>

\* a DELETE by id alone
DeleteWhereId(tbl, id, u) == {x \in tbl : x.id # id}

\* DELETE FROM attendance_records WHERE id = $1 AND user_id = $2: the rows that stay
DeleteWhereIdUser(tbl, id, u) == {x \in tbl : ~(x.id = id /\ x.user = u)}

\* deleteAttendanceRecord: the DELETE statement
DeleteRecord(a, u, id) ==
    /\ adm[a].pc \in {"idle", "returned"}
    /\ ops < MaxOps
    /\ ops' = ops + 1
    /\ attendance' = DeleteWhereIdUser(attendance, id, u)
    /\ writes' = IF attendance' # attendance THEN writes + 1 ELSE writes
    /\ adm' = [adm EXCEPT ![a] = [IdleAdm EXCEPT !.pc = "delete_return", !.op = "delete",
                                     !.user = u, !.lastWrite = IF writes' # writes THEN writes' ELSE 0,
                                     !.rowCount = Cardinality(attendance) - Cardinality(attendance')]]
    /\ UNCHANGED <<students, courses, nextId, up, started, cacheVars, clock, rdVars>>

\* deleteAttendanceRecord: invalidateCache(); return rowCount > 0
DeleteReturn(a) ==
    /\ adm[a].pc = "delete_return"
    /\ cache' = invalidateCache(cache)
    /\ invalidatedAt' = Max(invalidatedAt, adm[a].lastWrite)
    /\ adm' = [adm EXCEPT ![a].pc = "returned",
                          ![a].result = IF adm[a].rowCount > 0 THEN "true" ELSE "false"]
    /\ UNCHANGED <<dbVars, up, started, clock, rdVars, ops>>

\* deleteAttendanceRecord: the DELETE rejects: nothing is removed, the catch
\* block returns false
DeleteFail(a, u, id) ==
    /\ adm[a].pc \in {"idle", "returned"}
    /\ ops < MaxOps
    /\ ops' = ops + 1
    /\ adm' = [adm EXCEPT ![a] = [IdleAdm EXCEPT !.pc = "returned", !.op = "delete",
                                                 !.user = u, !.result = "false"]]
    /\ UNCHANGED <<dbVars, up, started, cacheVars, clock, rdVars>>

\* clearAllData: the first DELETE rejects: nothing is removed, the catch
\* block returns false
ClearReject(a, u) ==
    /\ adm[a].pc \in {"idle", "returned"}
    /\ ops < MaxOps
    /\ ops' = ops + 1
    /\ adm' = [adm EXCEPT ![a] = [IdleAdm EXCEPT !.pc = "returned", !.op = "clear",
                                                 !.user = u, !.result = "false"]]
    /\ UNCHANGED <<dbVars, up, started, cacheVars, clock, rdVars>>

\* clearAllData: the second or the third DELETE rejects: the statements
\* before it stay done (no transaction spans them), control goes to the
\* catch block, which returns false
ClearFail(a) ==
    /\ adm[a].pc \in {"clear_students", "clear_courses"}
    /\ adm' = [adm EXCEPT ![a].pc = "returned", ![a].result = "false"]
    /\ UNCHANGED <<dbVars, up, started, cacheVars, clock, rdVars, ops>>

AdminStep(a) ==
    \/ \E u \in Users : ClearAttendance(a, u)
    \/ ClearStudents(a)
    \/ ClearCourses(a)
    \/ ClearReturn(a)
    \/ \E u \in Users, id \in {x.id : x \in attendance} \cup {0} : DeleteRecord(a, u, id)
    \/ DeleteReturn(a)

SaveStep(p) ==
    \/ CoursesSelect(p)
    \/ CoursesInsert(p)
    \/ StudentsSelect(p)
    \/ StudentsInsert(p)
    \/ AttendanceSelect(p)
    \/ AttendanceInsert(p)

----------------------------------------------------------------------------
(* Text: the characters of the strings that searches and ORDER BY look     *)
(* into, the case folding of ILIKE and the pattern language of LIKE.       *)

Chars(s) ==
    CASE s = ""                -> <<>>
      [] s = "r1"              -> <<"r", "1">>
      [] s = "r2"              -> <<"r", "2">>
      [] s = "r3"              -> <<"r", "3">>
      [] s = "c1"              -> <<"c", "1">>
      [] s = "c2"              -> <<"c", "2">>
      [] s = "Asha"            -> <<"A", "s", "h", "a">>
      [] s = "Ravi"            -> <<"R", "a", "v", "i">>
      [] s = "Tara"            -> <<"T", "a", "r", "a">>
      [] s = "R"               -> <<"R">>
      [] s = "sh"              -> <<"s", "h">>
      [] s = "_2"              -> <<"_", "2">>
      [] s = "Admission No"    -> <<"A", "d", "m", "i", "s", "s", "i", "o", "n", " ", "N", "o">>
      [] s = "Registration No" -> <<"R", "e", "g", "i", "s", "t", "r", "a", "t", "i", "o", "n", " ", "N", "o">>
      [] s = "Student Name"    -> <<"S", "t", "u", "d", "e", "n", "t", " ", "N", "a", "m", "e">>
      [] s = "Attended"        -> <<"A", "t", "t", "e", "n", "d", "e", "d">>
      [] s = "Conducted"       -> <<"C", "o", "n", "d", "u", "c", "t", "e", "d">>
      [] s = "Percentage"      -> <<"P", "e", "r", "c", "e", "n", "t", "a", "g", "e">>
      [] s = "ADMISSION"       -> <<"A", "D", "M", "I", "S", "S", "I", "O", "N">>
      [] s = "REGISTRATION"    -> <<"R", "E", "G", "I", "S", "T", "R", "A", "T", "I", "O", "N">>
      [] s = "STUDENT NAME"    -> <<"S", "T", "U", "D", "E", "N", "T", " ", "N", "A", "M", "E">>
      [] s = "NAME"            -> <<"N", "A", "M", "E">>
      [] s = "ATTENDED"        -> <<"A", "T", "T", "E", "N", "D", "E", "D">>
      [] s = "CUMULATIVE"      -> <<"C", "U", "M", "U", "L", "A", "T", "I", "V", "E">>
      [] s = "TOTAL"           -> <<"T", "O", "T", "A", "L">>
      [] s = "SUMMARY"         -> <<"S", "U", "M", "M", "A", "R", "Y">>
      [] s = "UNDEFINED"       -> <<"U", "N", "D", "E", "F", "I", "N", "E", "D">>
      [] s = "NAN"             -> <<"N", "A", "N">>
      [] s = "-"               -> <<"-">>
      [] s = "  "              -> <<" ", " ">>
      [] s = " r1 "            -> <<" ", "r", "1", " ">>
      [] s = "NaN"             -> <<"N", "a", "N">>
      [] s = "Undefined"       -> <<"U", "n", "d", "e", "f", "i", "n", "e", "d">>
      [] s = "Sub Total"       -> <<"S", "u", "b", " ", "T", "o", "t", "a", "l">>
      [] s = "cumulative"      -> <<"c", "u", "m", "u", "l", "a", "t", "i", "v", "e">>
      [] s = "Summary"         -> <<"S", "u", "m", "m", "a", "r", "y">>
      [] s = "Grand Total"     -> <<"G", "r", "a", "n", "d", " ", "T", "o", "t", "a", "l">>
      [] s = "Cumulative"      -> <<"C", "u", "m", "u", "l", "a", "t", "i", "v", "e">>
      [] s = "summary"         -> <<"s", "u", "m", "m", "a", "r", "y">>

\* the strings whose characters are listed above
Texts ==
    {"", "r1", "r2", "r3", "c1", "c2", "Asha", "Ravi", "Tara", "R", "sh",
     "_2", "Admission No", "Registration No", "Student Name", "Attended",
     "Conducted", "Percentage", "ADMISSION", "REGISTRATION", "STUDENT NAME",
     "NAME", "ATTENDED", "CUMULATIVE", "TOTAL", "SUMMARY", "UNDEFINED",
     "NAN", "-", "  ", " r1 ", "NaN", "Undefined", "Sub Total", "cumulative",
     "Summary", "Grand Total", "Cumulative", "summary"}

\* the string made of the characters t
Text(t) == CHOOSE s \in Texts : Chars(s) = t

\* ILIKE folds case on both sides
Lower(ch) ==
    CASE ch = "A" -> "a"
      [] ch = "R" -> "r"
      [] ch = "T" -> "t"
      [] OTHER    -> ch

LowerSeq(t) == [k \in DOMAIN t |-> Lower(t[k])]

\* LIKE: % matches any run of characters, _ any one character
RECURSIVE LikeMatch(_, _)
LikeMatch(text, pat) ==
    IF pat = <<>> THEN text = <<>>
    ELSE IF Head(pat) = "%"
         THEN \E k \in 0..Len(text) : LikeMatch(SubSeq(text, k + 1, Len(text)), Tail(pat))
         ELSE /\ text # <<>>
              /\ Head(pat) = "_" \/ Head(pat) = Head(text)
              /\ LikeMatch(Tail(text), Tail(pat))

\* column ILIKE `%${search}%`
ILike(column, search) ==
    LikeMatch(LowerSeq(Chars(column)), <<"%">> \o LowerSeq(Chars(search)) \o <<"%">>)

\* the order of the characters in use: digits, then letters
Rank(ch) ==
    CASE ch = "1" -> 1 [] ch = "2" -> 2 [] ch = "3" -> 3
      [] ch = "c" -> 4 [] ch = "r" -> 5 [] OTHER -> 6

RECURSIVE SeqLess(_, _)
SeqLess(x, y) ==
    IF y = <<>> THEN FALSE
    ELSE IF x = <<>> THEN TRUE
    ELSE IF Rank(Head(x)) # Rank(Head(y)) THEN Rank(Head(x)) < Rank(Head(y))
    ELSE SeqLess(Tail(x), Tail(y))

\* ORDER BY on a text column
StrLess(a, b) == SeqLess(Chars(a), Chars(b))

----------------------------------------------------------------------------
(* AttendanceService: the queries of the read side. *)

\* the filter arguments of the three filtered reads
Args(courseCode, threshold, search, excludeCourses, page, perPage) ==
    [courseCode |-> courseCode, threshold |-> threshold, search |-> search,
     excludeCourses |-> excludeCourses, page |-> page, perPage |-> perPage]

NoArgs == Args("", 75, "", {}, 1, 100)

\* FROM attendance_records a JOIN students s ON a.student_id = s.id
\*                           JOIN courses c ON a.course_id = c.id
Joined ==
    {[a |-> a, s |-> s, c |-> c] : a \in attendance, s \in students, c \in courses}

JoinOn(j) == j.a.student_id = j.s.id /\ j.a.course_id = j.c.id

\* WHERE user_id = $1 of every query of the service
Owned(row, u) == row.user = u

\* the WHERE clause the three filtered reads build; only the record list and
\* the record count add the threshold condition
Where(j, u, args, withThreshold) ==
    /\ JoinOn(j)
    /\ Owned(j.a, u)
    /\ args.courseCode # "" => j.c.code = args.courseCode
    /\ args.excludeCourses # {} => j.c.code \notin args.excludeCourses
    /\ (withThreshold /\ args.threshold < 100) => j.a.pct < args.threshold
    /\ args.search # "" => (ILike(j.s.name, args.search) \/ ILike(j.s.reg, args.search))

Matching(u, args, withThreshold) == {j \in Joined : Where(j, u, args, withThreshold)}

\* history: the owners of the rows a result was computed from
OwnersOf(js) == UNION {{j.a.user, j.s.user, j.c.user} : j \in js}

\* a column of a result row: an integer or NULL
SqlNull == [isNull |-> TRUE, n |-> 0]

SqlInt(n) == [isNull |-> FALSE, n |-> n]

\* COUNT(DISTINCT col): 0 over no rows
CountDistinct(vals) == SqlInt(Cardinality(vals))

\* SUM(CASE WHEN a.attendance_percentage < limit THEN 1 ELSE 0 END): NULL
\* over no rows
SumCase(recs, limit) ==
    IF recs = {} THEN SqlNull ELSE SqlInt(Cardinality({a \in recs : a.pct < limit}))

\* parseInt(v) alone: NaN for a NULL column, written here as the one number
\* below every count
parseIntBare(v) == IF v.isNull THEN 0 - 1 ELSE v.n

\* parseInt(v) || 0: NaN is falsy
parseIntOrZero(v) == IF v.isNull THEN 0 ELSE v.n

\* the row of the statistics query as the service reads it
StatsOf(recs) ==
    [total_students            |-> parseIntOrZero(CountDistinct({a.student_id : a \in recs})),
     total_courses             |-> parseIntOrZero(CountDistinct({a.course_id : a \in recs})),
     low_attendance_count      |-> parseIntOrZero(SumCase(recs, 75)),
     critical_attendance_count |-> parseIntOrZero(SumCase(recs, 65))]

\* ORDER BY c.course_code ASC, a.attendance_percentage ASC, s.registration_no ASC
RecordLess(x, y) ==
    \/ StrLess(x.c.code, y.c.code)
    \/ x.c.code = y.c.code /\ x.a.pct < y.a.pct
    \/ x.c.code = y.c.code /\ x.a.pct = y.a.pct /\ StrLess(x.s.reg, y.s.reg)

CourseLess(x, y) == StrLess(x.code, y.code)

RECURSIVE SortRecords(_)
SortRecords(set) ==
    IF set = {} THEN <<>>
    ELSE LET m == CHOOSE x \in set : \A y \in set : ~RecordLess(y, x)
         IN  <<m>> \o SortRecords(set \ {m})

\* ORDER BY course_code ASC
RECURSIVE SortCourses(_)
SortCourses(set) ==
    IF set = {} THEN <<>>
    ELSE LET m == CHOOSE x \in set : \A y \in set : ~CourseLess(y, x)
         IN  <<m>> \o SortCourses(set \ {m})

\* LIMIT $n OFFSET $m
LimitOffset(rows, limit, offset) == SubSeq(rows, offset + 1, Min(offset + limit, Len(rows)))

\* the object getFilteredAttendanceRecords builds from a returned row
RecordOf(j) ==
    [id |-> j.a.id, registration_no |-> j.s.reg, student_name |-> j.s.name,
     course_code |-> j.c.code, course_name |-> j.c.name,
     attended_periods |-> j.a.attended, conducted_periods |-> j.a.conducted,
     attendance_percentage |-> j.a.pct]

----------------------------------------------------------------------------
(* AttendanceService: the read operations.  rd[q] is one call.  A query is *)
(* sent in the step that issues it (or that handled the previous answer),  *)
(* executed by the database in a step of its own, and its answer is        *)
(* handled in a later step.                                                *)

RdSlots == {1}

CachedOps == {"calculateDashboardStats", "getAllCourses"}

FilteredOps == {"calculateFilteredStats", "getFilteredAttendanceRecords",
                "getFilteredAttendanceCount"}

Null == [null |-> TRUE]

IdleRd == [pc |-> "idle", op |-> "none", user |-> "u1", args |-> NoArgs, data |-> Null,
           hit |-> FALSE, gen |-> 0, owners |-> {}, need |-> 0, clearGen |-> 0]

\* the key without the user id
CacheKeyShared(op, u) ==
    IF op = "calculateDashboardStats" THEN <<"dashboard_stats", "">> ELSE <<"all_courses", "">>

\* `dashboard_stats_${userId}` and `all_courses_${userId}`
CacheKey(op, u) ==
    IF op = "calculateDashboardStats" THEN <<"dashboard_stats", u>> ELSE <<"all_courses", u>>

\* the ttl argument of the two cached reads
Ttl(op) == IF op = "calculateDashboardStats" THEN STATS_TTL ELSE COURSES_TTL

\* an entry that is still served when it is exactly ttl old
FreshInclusive(c, key, ttl, t) == key \in DOMAIN c /\ t - c[key].timestamp <= ttl

\* entry && Date.now() - entry.timestamp < ttl
Fresh(c, key, ttl, t) == key \in DOMAIN c /\ t - c[key].timestamp < ttl

\* cache.set(key, { data, timestamp: Date.now() })
CacheSet(c, key, entry) == [k \in DOMAIN c \cup {key} |-> IF k = key THEN entry ELSE c[k]]

\* history: the latest change made by a clearAllData(u) that has returned true
ClearedAt(u) ==
    LET done == {a \in AdmSlots : /\ adm[a].op = "clear" /\ adm[a].pc = "returned"
                                  /\ adm[a].result = "true" /\ adm[a].user = u}
    IN  IF done = {} THEN 0 ELSE adm[CHOOSE a \in done : TRUE].lastWrite

\* a call enters: what the histories were when it was issued
Issued(u, op, args) ==
    [IdleRd EXCEPT !.op = op, !.user = u, !.args = args,
                   !.need = invalidatedAt, !.clearGen = ClearedAt(u)]

\* calculateDashboardStats / getAllCourses up to the cache lookup of cached():
\* a fresh entry is returned, otherwise fn sends its query
ReadCached(q, u, op) ==
    LET key == CacheKey(op, u) IN
    /\ rd[q].pc \in {"idle", "returned"}
    /\ reads < MaxReads
    /\ reads' = reads + 1
    /\ rd' = [rd EXCEPT ![q] =
                 IF Fresh(cache, key, Ttl(op), now)
                 THEN [Issued(u, op, NoArgs) EXCEPT !.pc = "returned", !.hit = TRUE,
                                                    !.data = cache[key].data,
                                                    !.gen = cache[key].gen,
                                                    !.owners = cache[key].owners]
                 ELSE [Issued(u, op, NoArgs) EXCEPT !.pc = "query"]]
    /\ UNCHANGED <<dbVars, up, started, cacheVars, clock, adm, ops>>

\* the three uncached reads build their WHERE clause and send the first query
ReadFiltered(q, u, op, args) ==
    /\ rd[q].pc \in {"idle", "returned"}
    /\ reads < MaxReads
    /\ reads' = reads + 1
    /\ rd' = [rd EXCEPT ![q] = [Issued(u, op, args) EXCEPT !.pc = "query"]]
    /\ UNCHANGED <<dbVars, up, started, cacheVars, clock, adm, ops>>

\* how the driver hands a DECIMAL column to the caller: as a string unless
\* the process has registered a parser for the type
NumericFormats == {"string", "number"}

\* result.rows.map(row => ({..., attendance_percentage: Number(row.attendance_percentage.toFixed(1))}))
\* toFixed is a method of numbers only
MapRecords(rows, numeric) ==
    IF rows # <<>> /\ numeric = "string"
    THEN [error |-> "TypeError"]
    ELSE [rows |-> [k \in DOMAIN rows |-> RecordOf(rows[k])]]

\* is_single_student: !!search && totalStudents === 1
IsSingle(r) == r.args.search # "" /\ r.data.total_students = 1

\* where calculateFilteredStats goes after the query numbered n of its four
FsNext(r, n) ==
    IF n < 3 /\ r.args.courseCode # "" THEN "fs_course"
    ELSE IF IsSingle(r) THEN "fs_student"
    ELSE "returned"

\* a statistics query that added the threshold condition as well
WithThresholdAlways(op) == TRUE

\* only getFilteredAttendanceRecords and getFilteredAttendanceCount add
\* a.attendance_percentage < threshold (and only below 100) to the WHERE
\* clause; calculateFilteredStats never reads its threshold argument
WithThreshold(op) == op # "calculateFilteredStats"

\* the database executes the first (for four of the reads: the only) query
ReadQuery(q) ==
    LET r    == rd[q]
        recs == {a \in attendance : Owned(a, r.user)}
        crs  == SortCourses({c \in courses : Owned(c, r.user)})
        js   == Matching(r.user, r.args, WithThreshold(r.op))
        page == LimitOffset(SortRecords(js), r.args.perPage, (r.args.page - 1) * r.args.perPage)
        r2   == [r EXCEPT !.gen = writes]
    IN
    /\ r.pc = "query"
    /\ \E numeric \in NumericFormats :
        rd' = [rd EXCEPT ![q] =
            CASE r.op = "calculateDashboardStats" ->
                    [r2 EXCEPT !.pc = "store", !.data = StatsOf(recs),
                               !.owners = {a.user : a \in recs}]
              [] r.op = "getAllCourses" ->
                    [r2 EXCEPT !.pc = "store",
                               !.data = [rows |-> [k \in DOMAIN crs |->
                                            [id |-> crs[k].id, course_code |-> crs[k].code,
                                             course_name |-> crs[k].name]]],
                               !.owners = {crs[k].user : k \in DOMAIN crs}]
              [] r.op = "getFilteredAttendanceCount" ->
                    [r2 EXCEPT !.pc = "returned", !.data = [count |-> Cardinality(js)],
                               !.owners = OwnersOf(js)]
              [] r.op = "getFilteredAttendanceRecords" ->
                    [r2 EXCEPT !.pc = "returned", !.data = MapRecords(page, numeric),
                               !.owners = OwnersOf(Range(page))]
              [] r.op = "calculateFilteredStats" ->
                    [r2 EXCEPT !.pc = "fs_total",
                               !.data = [total_students |-> StatsOf({j.a : j \in js}).total_students,
                                         total_courses |-> StatsOf({j.a : j \in js}).total_courses,
                                         low_attendance_count |->
                                             StatsOf({j.a : j \in js}).low_attendance_count,
                                         critical_attendance_count |->
                                             StatsOf({j.a : j \in js}).critical_attendance_count,
                                         is_single_student |-> FALSE,
                                         student_details |-> Null,
                                         total_courses_in_system |-> 0,
                                         course_details |-> Null,
                                         student_course_info |-> Null],
                               !.owners = OwnersOf(js)]]
    /\ UNCHANGED <<dbVars, up, started, cacheVars, clock, adm, ops, reads>>

\* cached(): cache.set(key, { data, timestamp: Date.now() }); return data
ReadStore(q) ==
    LET r == rd[q] IN
    /\ r.pc = "store"
    /\ cache' = CacheSet(cache, CacheKey(r.op, r.user),
                         [data |-> r.data, timestamp |-> now, gen |-> r.gen, owners |-> r.owners])
    /\ rd' = [rd EXCEPT ![q].pc = "returned"]
    /\ UNCHANGED <<dbVars, up, started, invalidatedAt, clock, adm, ops, reads>>

\* calculateFilteredStats: SELECT COUNT(*) FROM courses WHERE user_id = $1
FsTotal(q) ==
    LET r   == rd[q]
        crs == {c \in courses : Owned(c, r.user)}
        r2  == [r EXCEPT !.data.total_courses_in_system = Cardinality(crs),
                         !.data.is_single_student = IsSingle(r),
                         !.owners = @ \cup {c.user : c \in crs}]
    IN
    /\ r.pc = "fs_total"
    /\ rd' = [rd EXCEPT ![q] = [r2 EXCEPT !.pc = FsNext(r, 2)]]
    /\ UNCHANGED <<dbVars, up, started, cacheVars, clock, adm, ops, reads>>

\* calculateFilteredStats: the course_code, course_name of the filter's course
FsCourse(q) ==
    LET r   == rd[q]
        crs == {c \in courses : Owned(c, r.user) /\ c.code = r.args.courseCode}
        r2  == IF crs = {} THEN r
               ELSE LET c == CHOOSE c \in crs : TRUE
                    IN  [r EXCEPT !.data.course_details = [code |-> c.code, name |-> c.name],
                                  !.owners = @ \cup {c.user}]
    IN
    /\ r.pc = "fs_course"
    /\ rd' = [rd EXCEPT ![q] = [r2 EXCEPT !.pc = FsNext(r, 3)]]
    /\ UNCHANGED <<dbVars, up, started, cacheVars, clock, adm, ops, reads>>

\* `${courseCount} course${courseCount !== 1 ? 's' : ''}`
CourseCountText(n) == <<n, IF n # 1 THEN "courses" ELSE "course">>

\* calculateFilteredStats: the per-student grouping, of which rows[0] is used
FsStudent(q) ==
    LET r  == rd[q]
        js == Matching(r.user, r.args, FALSE)
    IN
    /\ r.pc = "fs_student"
    /\ IF js = {}
       THEN rd' = [rd EXCEPT ![q].pc = "returned"]
       ELSE \E j \in js :
              LET n == Cardinality({k.a.course_id : k \in {k \in js : k.a.student_id = j.a.student_id}})
              IN  rd' = [rd EXCEPT ![q].pc = "returned",
                                   ![q].data.student_details =
                                       [name |-> j.s.name, registration_no |-> j.s.reg],
                                   ![q].data.student_course_info =
                                       IF r.args.courseCode # "" THEN r.args.courseCode
                                       ELSE CourseCountText(n),
                                   ![q].owners = @ \cup OwnersOf(js)]
    /\ UNCHANGED <<dbVars, up, started, cacheVars, clock, adm, ops, reads>>

ReadStep(q) ==
    \/ ReadQuery(q)
    \/ ReadStore(q)
    \/ FsTotal(q)
    \/ FsCourse(q)
    \/ FsStudent(q)

\* time passes
TickSteps == {30000, 60000, 300000}

Tick(d) ==
    /\ ticks < MaxTicks
    /\ ticks' = ticks + 1
    /\ now' = now + d
    /\ UNCHANGED <<dbVars, up, started, cacheVars, rdVars, adm, ops>>

----------------------------------------------------------------------------
(* The worksheet: ExcelProcessor.mapColumnsToCourses and processWorksheet. *)
(* A sheet is what processWorksheet has once the header is located: the    *)
(* course cells of the rows 4..7 (top), the courses detected in them by    *)
(* column (coursesInfo), the header row and the data rows; a row is the    *)
(* array of its cells, indexed by column.                                  *)

\* cells: text, a number, or nothing (undefined in row.values)
S(s) == [kind |-> "string", s |-> s]

N(n) == [kind |-> "number", n |-> n]

Empty == [kind |-> "empty"]

\* rowValues[idx]
Cell(row, idx) == IF idx \in DOMAIN row THEN row[idx] ELSE Empty

Lowercase == <<"a", "b", "c", "d", "e", "f", "g", "h", "i", "j", "k", "l", "m",
               "n", "o", "p", "q", "r", "s", "t", "u", "v", "w", "x", "y", "z">>

Uppercase == <<"A", "B", "C", "D", "E", "F", "G", "H", "I", "J", "K", "L", "M",
               "N", "O", "P", "Q", "R", "S", "T", "U", "V", "W", "X", "Y", "Z">>

Upper(ch) ==
    IF \E i \in DOMAIN Lowercase : Lowercase[i] = ch
    THEN Uppercase[CHOOSE i \in DOMAIN Lowercase : Lowercase[i] = ch]
    ELSE ch

\* String.prototype.toUpperCase
toUpperCase(t) == [k \in DOMAIN t |-> Upper(t[k])]

\* String.prototype.includes
includes(t, pat) ==
    \E i \in 1 .. (Len(t) - Len(pat) + 1) : SubSeq(t, i, i + Len(pat) - 1) = pat

RECURSIVE trimStart(_)
trimStart(t) == IF t # <<>> /\ Head(t) = " " THEN trimStart(Tail(t)) ELSE t

RECURSIVE trimEnd(_)
trimEnd(t) == IF t # <<>> /\ t[Len(t)] = " " THEN trimEnd(SubSeq(t, 1, Len(t) - 1)) ELSE t

\* String.prototype.trim
trim(t) == trimEnd(trimStart(t))

\* v ? String(v).trim() : '' for the cells of the text columns, which hold
\* text or nothing
CellText(v) == IF v.kind = "string" THEN Text(trim(Chars(v.s))) ELSE ""

\* String(colName).toUpperCase() of a header cell; nothing for `!colName`
Label(cell) == IF cell.kind = "string" THEN toUpperCase(Chars(cell.s)) ELSE <<>>

\* the index a forEach over the header leaves in a field it assigns for
\* every label that satisfies P: the last one, 0 when the field stays undefined
LastIndex(headerRow, P(_)) ==
    LET hits == {i \in DOMAIN headerRow : P(Label(headerRow[i]))}
    IN  IF hits = {} THEN 0 ELSE CHOOSE i \in hits : \A j \in hits : j <= i

IsAdmission(l) == includes(l, Chars("ADMISSION"))

IsRegistration(l) == ~IsAdmission(l) /\ includes(l, Chars("REGISTRATION"))

IsName(l) ==
    /\ ~IsAdmission(l)
    /\ ~includes(l, Chars("REGISTRATION"))
    /\ includes(l, Chars("STUDENT NAME")) \/ includes(l, Chars("NAME"))

\* attendedIndices: the columns whose label includes ATTENDED, left to right
attendedIndices(headerRow) ==
    SelectSeq([i \in DOMAIN headerRow |-> i],
              LAMBDA i : includes(Label(headerRow[i]), Chars("ATTENDED")))

\* the detected courses' columns from right to left
RECURSIVE courseListDescending(_)
courseListDescending(cols) ==
    IF cols = {} THEN <<>>
    ELSE LET m == CHOOSE x \in cols : \A y \in cols : y <= x
         IN  <<m>> \o courseListDescending(cols \ {m})

\* courseList: Object.entries(coursesInfo).sort((a, b) => Number(a[0]) - Number(b[0])),
\* as the sequence of the columns
RECURSIVE courseList(_)
courseList(cols) ==
    IF cols = {} THEN <<>>
    ELSE LET m == CHOOSE x \in cols : \A y \in cols : x <= y
         IN  <<m>> \o courseList(cols \ {m})

\* courseColumns in insertion order: the i-th course of courseList gets the
\* i-th Attended column and the two columns after it, if there is an i-th
courseColumns(headerRow, coursesInfo) ==
    LET list == courseList(DOMAIN coursesInfo)
        att  == attendedIndices(headerRow)
        k    == Min(Len(list), Len(att))
    IN  [i \in 1 .. k |-> [code       |-> coursesInfo[list[i]].code,
                           attended   |-> att[i],
                           conducted  |-> att[i] + 1,
                           percentage |-> att[i] + 2]]

mapColumnsToCourses(headerRow, coursesInfo) ==
    [admission_no    |-> LastIndex(headerRow, IsAdmission),
     registration_no |-> LastIndex(headerRow, IsRegistration),
     student_name    |-> LastIndex(headerRow, IsName),
     courses         |-> courseColumns(headerRow, coursesInfo)]

\* rowValues.every(v => v === null || v === undefined || String(v).trim() === '')
RowEmpty(row) ==
    \A i \in DOMAIN row :
        \/ row[i].kind = "empty"
        \/ row[i].kind = "string" /\ trim(Chars(row[i].s)) = <<>>

\* the skip conditions of lines 487-489 on the trimmed texts
Skipped(registration_no, student_name) ==
    LET regUpper  == toUpperCase(Chars(registration_no))
        nameUpper == toUpperCase(Chars(student_name))
    IN  \/ registration_no = ""
        \/ regUpper \in {Chars("UNDEFINED"), Chars("NAN"), Chars("-")}
        \/ includes(nameUpper, Chars("CUMULATIVE"))
        \/ includes(nameUpper, Chars("TOTAL"))
        \/ includes(nameUpper, Chars("SUMMARY"))
        \/ includes(regUpper, Chars("CUMULATIVE"))
        \/ includes(regUpper, Chars("TOTAL"))

\* invalid(val)
invalid(val) ==
    \/ val.kind = "empty"
    \/ /\ val.kind = "string"
       /\ \/ trim(Chars(val.s)) \in {<<>>, Chars("-")}
          \/ toUpperCase(Chars(val.s)) = Chars("NAN")

\* Number.isFinite(Number(val)) for a cell that is not invalid: a number
\* cell is; the text cells in use are no numerals
IsFinite(val) == val.kind = "number"

\* a percentage derived as 0 whatever the periods are
DerivedZero(attended, conducted) == 0

\* conducted > 0 ? (attended / conducted * 100) : 0; the quotient is taken
\* exactly, the periods in use divide without remainder
Derived(attended, conducted) ==
    IF conducted > 0
    THEN CHOOSE q \in 0 .. (attended * 100) : q * conducted = attended * 100
    ELSE 0

\* the attendance tuples of one accepted row, one per mapped course
RowAttendance(row, registration_no, courseCols) ==
    LET ok == SelectSeq(courseCols,
                        LAMBDA c : /\ ~invalid(Cell(row, c.attended))
                                   /\ ~invalid(Cell(row, c.conducted))
                                   /\ IsFinite(Cell(row, c.attended))
                                   /\ IsFinite(Cell(row, c.conducted))
                                   /\ ~(Cell(row, c.conducted).n > 1000))
    IN  [j \in DOMAIN ok |->
            LET attended      == Cell(row, ok[j].attended).n
                conducted     == Cell(row, ok[j].conducted).n
                percentageVal == Cell(row, ok[j].percentage)
            IN  At(registration_no, ok[j].code, attended, conducted,
                   IF ~invalid(percentageVal) /\ IsFinite(percentageVal)
                   THEN percentageVal.n
                   ELSE Derived(attended, conducted))]

\* the loop over the data rows from row i on
RECURSIVE ProcessRows(_, _, _)
ProcessRows(rows, i, columnMapping) ==
    IF i > Len(rows) THEN [students |-> <<>>, attendance |-> <<>>]
    ELSE LET rest            == ProcessRows(rows, i + 1, columnMapping)
             registration_no == CellText(Cell(rows[i], columnMapping.registration_no))
             student_name    == CellText(Cell(rows[i], columnMapping.student_name))
         IN  IF RowEmpty(rows[i]) \/ Skipped(registration_no, student_name)
             THEN rest
             ELSE [students   |-> <<St(registration_no, student_name)>> \o rest.students,
                   attendance |-> RowAttendance(rows[i], registration_no, columnMapping.courses)
                                     \o rest.attendance]

\* the course codes of a column-to-course record
Codes(info) == {info[col].code : col \in DOMAIN info}

\* courseRow.eachCell: the cells of a row that match the course pattern,
\* visited by ascending column; a cell is taken unless its code is already
\* in the record built from the earlier rows or in rowCourses
RECURSIVE eachCell(_, _, _)
eachCell(courseRow, found, rowCourses) ==
    IF DOMAIN courseRow = {} THEN rowCourses
    ELSE LET colNumber == CHOOSE c \in DOMAIN courseRow : \A d \in DOMAIN courseRow : c <= d
             rest      == [d \in DOMAIN courseRow \ {colNumber} |-> courseRow[d]]
             code      == courseRow[colNumber].code
         IN  IF code \notin Codes(found) /\ code \notin Codes(rowCourses)
             THEN eachCell(rest, found, (colNumber :> courseRow[colNumber]) @@ rowCourses)
             ELSE eachCell(rest, found, rowCourses)

\* Object.assign(target, source): source's entries win
ObjectAssign(target, source) == source @@ target

\* the loop over rowNum = 4 .. Math.min(7, sheet.rowCount); top[k] is row k + 3
RECURSIVE extractFrom(_, _, _)
extractFrom(top, k, found) ==
    IF k > Len(top) THEN found
    ELSE LET rowCourses   == eachCell(top[k], found, EmptyMap)
             foundCourses == Cardinality(DOMAIN rowCourses)
         IN  extractFrom(top, k + 1,
                         IF foundCourses > Cardinality(DOMAIN found)
                         THEN ObjectAssign(found, rowCourses)
                         ELSE found)

extractCourseInfoFromHeader(top) == extractFrom(top, 1, EmptyMap)

\* processWorksheet: students, attendance and Object.values(coursesInfo)
processWorksheet(sheet) ==
    LET coursesInfo   == extractCourseInfoFromHeader(sheet.top)
        columnMapping == mapColumnsToCourses(sheet.headerRow, coursesInfo)
        out           == ProcessRows(sheet.rows, 1, columnMapping)
        list          == courseList(DOMAIN coursesInfo)
    IN  [students   |-> out.students,
         attendance |-> out.attendance,
         courses    |-> [i \in DOMAIN list |-> coursesInfo[list[i]]]]

\* an uploaded workbook: the file, its first worksheet and what
\* processExcelFileFromMemory returns for it
SheetFile(sheet) ==
    [ext |-> "xlsx", parsed |-> TRUE, data |-> processWorksheet(sheet), sheet |-> sheet]

\* header rows with one and with two column groups
HeaderOne ==
    <<S("Admission No"), S("Registration No"), S("Student Name"),
      S("Attended"), S("Conducted"), S("Percentage")>>

HeaderTwo == HeaderOne \o <<S("Attended"), S("Conducted"), S("Percentage")>>

Headers == {HeaderOne, HeaderTwo}

\* course cells on row 5: one; two in the order of their codes; two with
\* the later code on the left
CoursesInfos ==
    {(4 :> Co("c1", "Maths")),
     (4 :> Co("c1", "Maths")) @@ (7 :> Co("c2", "Physics")),
     (5 :> Co("c2", "Physics")) @@ (8 :> Co("c1", "Maths"))}

\* rows 4..7 of a sheet whose row 5 holds the course cells
TopOf(coursesInfo) == <<EmptyMap, coursesInfo, EmptyMap, EmptyMap>>

\* what the registration number and the student name cell of a row may hold
RegCells ==
    {Empty, S("  "), S("-"), S("NaN"), S("Undefined"), S("Sub Total"), S("cumulative"),
     S("Summary"), S("r1"), S(" r1 ")}

NameCells == {Empty, S("Asha"), S("Grand Total"), S("Cumulative"), S("summary")}

\* a sheet of two rows: a student row, then a row with the cells reg and name
SheetOf(headerRow, coursesInfo, reg, name) ==
    [top         |-> TopOf(coursesInfo),
     coursesInfo |-> extractCourseInfoFromHeader(TopOf(coursesInfo)),
     headerRow   |-> headerRow,
     rows        |-> << <<N(2), S("r2"), S("Ravi"), N(38), N(40), N(95), N(2), N(3), N(66)>>,
                        <<Empty, reg, name, N(30), N(40), Empty, N(6), N(10), N(60)>> >>]

\* what the attended, conducted and percentage cells of a row may hold
AttendedCells == {N(0), N(30), N(50)}

ConductedCells == {N(0), N(40)}

PercentageCells == {Empty, N(80), N(150), N(-5), S("-"), S("NaN"), S("Asha")}

\* a sheet of one course and two rows: a student row, then the row of r1
\* with the three value cells
ValueSheetOf(attendedVal, conductedVal, percentageVal) ==
    [top         |-> TopOf(4 :> Co("c1", "Maths")),
     coursesInfo |-> extractCourseInfoFromHeader(TopOf(4 :> Co("c1", "Maths"))),
     headerRow   |-> HeaderOne,
     rows        |-> << <<N(2), S("r2"), S("Ravi"), N(38), N(40), N(95)>>,
                        <<N(1), S("r1"), S("Asha"), attendedVal, conductedVal, percentageVal>> >>]

\* the course cells a row of the top of a sheet may hold
CourseRows ==
    {EmptyMap,
     (4 :> Co("c1", "Maths")),
     (4 :> Co("c1", "Maths")) @@ (7 :> Co("c2", "Physics")),
     (5 :> Co("c2", "Physics")) @@ (8 :> Co("c3", "Chemistry"))}

\* sheets of one to three scanned rows (rowCount 4..6) with these cells
Tops ==
    {<<a>> : a \in CourseRows}
    \cup {<<a, b>> : a, b \in CourseRows}
    \cup {<<a, b, c>> : a, b, c \in CourseRows}

\* a sheet of three column groups and two student rows under the top rows
TopSheetOf(top) ==
    [top         |-> top,
     coursesInfo |-> extractCourseInfoFromHeader(top),
     headerRow   |-> HeaderTwo \o <<S("Attended"), S("Conducted"), S("Percentage")>>,
     rows        |-> << <<N(2), S("r2"), S("Ravi"), N(38), N(40), N(95), N(2), N(3), N(66),
                          N(24), N(40), N(60)>>,
                        <<N(1), S("r1"), S("Asha"), N(36), N(40), N(90), N(6), N(10), N(60),
                          N(32), N(40), N(80)>> >>]

Sheets ==
    {SheetOf(h, ci, reg, name) : h \in Headers, ci \in CoursesInfos,
                                 reg \in RegCells, name \in NameCells}
    \cup {ValueSheetOf(a, c, pc) : a \in AttendedCells, c \in ConductedCells,
                                    pc \in PercentageCells}
    \cup {TopSheetOf(top) : top \in Tops}

----------------------------------------------------------------------------
(* Concurrent uploads: two requests of one file each. *)

\* the single-file requests of the concurrent specification
ConcurrentUploads ==
    ({"u1"} \X {GoodFile(DataA), GoodFile(DataB), GoodFile(DataC)})
        \cup ({"u2"} \X {GoodFile(DataA)})

Init ==
    /\ students = {}
    /\ courses = {}
    /\ attendance = {}
    /\ nextId = [s |-> 1, c |-> 1, a |-> 1]
    /\ up = [p \in UpSlots |-> IdleUp]
    /\ started = 0
    /\ cache = EmptyMap
    /\ now = 0
    /\ ticks = 0
    /\ rd = [q \in RdSlots |-> IdleRd]
    /\ adm = [a \in AdmSlots |-> IdleAdm]
    /\ ops = 0
    /\ reads = 0
    /\ writes = 0
    /\ invalidatedAt = 0

Next ==
    \/ \E p \in UpSlots, x \in ConcurrentUploads : UploadRequest(p, x[1], <<x[2]>>)
    \/ \E p \in UpSlots : UploadRespond(p)
    \/ \E p \in UpSlots : SaveStep(p)

Spec == Init /\ [][Next]_vars

----------------------------------------------------------------------------
(* One upload slot against clearAllData and deleteAttendanceRecord. *)

\* the single-file requests of this specification
AdminUploads == ({"u1"} \X {GoodFile(DataA), GoodFile(DataB)}) \cup ({"u2"} \X {GoodFile(DataA)})

NextAdmin ==
    \/ \E x \in AdminUploads : UploadRequest(1, x[1], <<x[2]>>)
    \/ UploadRespond(1)
    \/ SaveStep(1)
    \/ \E a \in AdmSlots : AdminStep(a)

SpecAdmin == Init /\ [][NextAdmin]_vars

----------------------------------------------------------------------------
(* Sequential uploads: one request at a time, of one or two files. *)

SeqRequests ==
    {<<f>> : f \in GoodFiles} \cup {<<f, g>> : f \in GoodFiles, g \in GoodFiles}

NextSeq ==
    \/ \E u \in Users, fs \in SeqRequests : UploadRequest(1, u, fs)
    \/ UploadRespond(1)
    \/ SaveStep(1)

SpecSeq == Init /\ [][NextSeq]_vars

----------------------------------------------------------------------------
(* Two users' data and every read: uploads, clears, deletes and reads of   *)
(* both users in every order.                                              *)

\* both users upload the same content
ScopeUploads == {<<"u1", GoodFile(DataA)>>, <<"u2", GoodFile(DataA)>>}

\* the filter arguments tried by the reader
ScopeArgs == {NoArgs,
              Args("c1", 100, "R", {}, 1, 1),
              Args("", 100, "_2", {"c2"}, 2, 1)}

\* no call is in flight: in this specification the two users' operations
\* run one after another
Quiet ==
    /\ \A p \in UpSlots : up[p].pc \in {"idle", "responded"}
    /\ \A a \in AdmSlots : adm[a].pc \in {"idle", "returned"}
    /\ \A q \in RdSlots : rd[q].pc \in {"idle", "returned"}

NextScope ==
    \/ \E x \in ScopeUploads : Quiet /\ UploadRequest(1, x[1], <<x[2]>>)
    \/ UploadRespond(1)
    \/ SaveStep(1)
    \/ \E a \in AdmSlots, u \in Users : Quiet /\ ClearAttendance(a, u)
    \/ \E a \in AdmSlots : ClearStudents(a)
    \/ \E a \in AdmSlots : ClearCourses(a)
    \/ \E a \in AdmSlots : ClearReturn(a)
    \/ \E a \in AdmSlots, u \in Users, x \in attendance : Quiet /\ DeleteRecord(a, u, x.id)
    \/ \E a \in AdmSlots : DeleteReturn(a)
    \/ \E q \in RdSlots, u \in Users, op \in CachedOps : Quiet /\ ReadCached(q, u, op)
    \/ \E q \in RdSlots, u \in Users, op \in FilteredOps, args \in ScopeArgs :
          Quiet /\ ReadFiltered(q, u, op, args)
    \/ \E q \in RdSlots : ReadStep(q)

SpecScope == Init /\ [][NextScope]_vars

----------------------------------------------------------------------------
(* The cache against the writers: one upload and the clears of one user    *)
(* while cached reads of that user are in flight and time passes.          *)

NextCache ==
    \/ started = 0 /\ UploadRequest(1, "u1", <<GoodFile(DataA)>>)
    \/ UploadRespond(1)
    \/ SaveStep(1)
    \/ \E a \in AdmSlots : ClearAttendance(a, "u1")
    \/ \E a \in AdmSlots : ClearStudents(a)
    \/ \E a \in AdmSlots : ClearCourses(a)
    \/ \E a \in AdmSlots : ClearReturn(a)
    \/ \E q \in RdSlots, op \in CachedOps : ReadCached(q, "u1", op)
    \/ \E q \in RdSlots : ReadQuery(q)
    \/ \E q \in RdSlots : ReadStore(q)
    \/ \E d \in TickSteps : Tick(d)

SpecCache == Init /\ [][NextCache]_vars

----------------------------------------------------------------------------
(* Multi-file requests with files that fail, next to a cached read. *)

ReqRequests ==
    {<<GoodFile(DataA)>>,
     <<GoodFile(DataA), GoodFile(DataD)>>,
     <<GoodFile(DataA), UnreadableFile>>,
     <<UnreadableFile, GoodFile(DataA)>>,
     <<WrongTypeFile, CsvFile(DataA)>>,
     <<GoodFile(DataE), WrongTypeFile>>,
     <<WrongTypeFile>>}

NextReq ==
    \/ \E fs \in ReqRequests : UploadRequest(1, "u1", fs)
    \/ UploadRespond(1)
    \/ SaveStep(1)
    \/ \E q \in RdSlots : ReadCached(q, "u1", "calculateDashboardStats")
    \/ \E q \in RdSlots : ReadQuery(q)
    \/ \E q \in RdSlots : ReadStore(q)

SpecReq == Init /\ [][NextReq]_vars

----------------------------------------------------------------------------
(* Uploads whose queries can fail: one request at a time, of one file, and *)
(* any awaited query of saveToDatabase may reject.                         *)

FailUploads == {GoodFile(DataA), GoodFile(DataC), GoodFile(DataE)}

NextFail ==
    \/ \E f \in FailUploads : UploadRequest(1, "u1", <<f>>)
    \/ UploadRespond(1)
    \/ SaveStep(1)
    \/ \E kind \in ErrorKinds : DbFail(1, kind)

SpecFail == Init /\ [][NextFail]_vars

\* every query the handler waits for is answered or rejected in the end
FairSpecFail == SpecFail /\ WF_vars(SaveStep(1) \/ \E kind \in ErrorKinds : DbFail(1, kind))

----------------------------------------------------------------------------
(* Uploaded worksheets: one request of one workbook, parsed and saved. *)

NextSheet ==
    \/ \E sheet \in Sheets : started = 0 /\ UploadRequest(1, "u1", <<SheetFile(sheet)>>)
    \/ UploadRespond(1)
    \/ SaveStep(1)

SpecSheet == Init /\ [][NextSheet]_vars

----------------------------------------------------------------------------
(* Filtered reads: one user's upload of two courses and filtered reads of  *)
(* both users with several filters, thresholds and pages, one call at a    *)
(* time, so that every read sees one dataset.                              *)

\* Asha at 75% and Ravi at 60% in c1, Asha alone at 70% in c2
DataQ == [students   |-> <<St("r1", "Asha"), St("r2", "Ravi")>>,
          courses    |-> <<Co("c1", "Maths"), Co("c2", "Physics")>>,
          attendance |-> <<At("r1", "c1", 30, 40, 75), At("r2", "c1", 24, 40, 60),
                           At("r1", "c2", 28, 40, 70)>>]

\* the filter arguments tried by the reader
QueryArgs == {NoArgs,
              Args("c1", 65, "", {}, 1, 100),
              Args("", 65, "", {}, 1, 2),
              Args("", 100, "", {}, 2, 2),
              Args("c2", 75, "", {}, 1, 100),
              Args("", 75, "", {"c1"}, 1, 100),
              Args("", 50, "_2", {}, 1, 100),
              Args("c1", 100, "sh", {}, 1, 1)}

NextQuery ==
    \/ started = 0 /\ Quiet /\ UploadRequest(1, "u1", <<GoodFile(DataQ)>>)
    \/ UploadRespond(1)
    \/ SaveStep(1)
    \/ \E q \in RdSlots, u \in Users, op \in FilteredOps, args \in QueryArgs :
          Quiet /\ ReadFiltered(q, u, op, args)
    \/ \E q \in RdSlots : ReadQuery(q)
    \/ \E q \in RdSlots : FsTotal(q)
    \/ \E q \in RdSlots : FsCourse(q)
    \/ \E q \in RdSlots : FsStudent(q)

SpecQuery == Init /\ [][NextQuery]_vars

----------------------------------------------------------------------------
(* Retried saves: one request of one file on a database that is empty or   *)
(* holds an earlier upload, with queries that reject.                      *)

EmptyDb == [students |-> {}, courses |-> {}, attendance |-> {},
            nid |-> [s |-> 1, c |-> 1, a |-> 1]]

\* the database after a saveToDatabase(d, u) whose only attempt runs to its
\* end with no other writer: the file's courses and students that were not
\* there are added in file order, then the qualifying tuples whose pair was
\* not there
SavedOnce(db, u, d) ==
    LET codes == incomingCourseCodes(d)
        cs    == InsertCourses(db.courses, db.nid.c, u,
                               [k \in DOMAIN codes |-> CourseInfoOf(d, codes[k])])
        ss    == InsertStudents(db.students, db.nid.s, u, d.students)
        q     == filteredAttendance(d)
        rows  == [k \in DOMAIN q |->
                    [student_id |-> (CHOOSE x \in ss.tbl : x.user = u /\ x.reg = q[k].reg).id,
                     course_id  |-> (CHOOSE x \in cs.tbl : x.user = u /\ x.code = q[k].code).id,
                     attended |-> q[k].attended, conducted |-> q[k].conducted,
                     pct |-> q[k].pct]]
        as    == InsertAttendance(db.attendance, db.nid.a, u, rows)
    IN  [students |-> ss.tbl, courses |-> cs.tbl, attendance |-> as.tbl,
         nid |-> [s |-> ss.nid, c |-> cs.nid, a |-> as.nid]]

\* the database before the request: empty, or after an upload of DataD
RetrySeeds == {EmptyDb, SavedOnce(EmptyDb, "u1", DataD)}

InitRetry ==
    /\ \E seed \in RetrySeeds :
          /\ students = seed.students
          /\ courses = seed.courses
          /\ attendance = seed.attendance
          /\ nextId = seed.nid
    /\ up = [p \in UpSlots |-> IdleUp]
    /\ started = 0
    /\ cache = EmptyMap
    /\ now = 0
    /\ ticks = 0
    /\ rd = [q \in RdSlots |-> IdleRd]
    /\ adm = [a \in AdmSlots |-> IdleAdm]
    /\ ops = 0
    /\ reads = 0
    /\ writes = 0
    /\ invalidatedAt = 0

NextRetry ==
    \/ \E f \in FailUploads : started = 0 /\ UploadRequest(1, "u1", <<f>>)
    \/ UploadRespond(1)
    \/ SaveStep(1)
    \/ \E kind \in ErrorKinds : DbFail(1, kind)

SpecRetry == InitRetry /\ [][NextRetry]_vars

----------------------------------------------------------------------------
(* The clears and deletes of one user with statements that reject, and *)
(* that user's upload and cached reads, one call after another.         *)

NextClearFail ==
    \/ started = 0 /\ Quiet /\ UploadRequest(1, "u1", <<GoodFile(DataA)>>)
    \/ UploadRespond(1)
    \/ SaveStep(1)
    \/ \E a \in AdmSlots : Quiet /\ ClearAttendance(a, "u1")
    \/ \E a \in AdmSlots : ClearStudents(a)
    \/ \E a \in AdmSlots : ClearCourses(a)
    \/ \E a \in AdmSlots : ClearReturn(a)
    \/ \E a \in AdmSlots : Quiet /\ ClearReject(a, "u1")
    \/ \E a \in AdmSlots : ClearFail(a)
    \/ \E a \in AdmSlots, x \in attendance : Quiet /\ DeleteRecord(a, "u1", x.id)
    \/ \E a \in AdmSlots : DeleteReturn(a)
    \/ \E a \in AdmSlots, x \in attendance : Quiet /\ DeleteFail(a, "u1", x.id)
    \/ \E q \in RdSlots, op \in CachedOps : Quiet /\ ReadCached(q, "u1", op)
    \/ \E q \in RdSlots : ReadQuery(q)
    \/ \E q \in RdSlots : ReadStore(q)

SpecClearFail == Init /\ [][NextClearFail]_vars

----------------------------------------------------------------------------
(* Claims checked under Spec (concurrent uploads). *)

SavePcs == {"courses_select", "courses_insert", "students_select", "students_insert",
            "attendance_select", "attendance_insert"}

Responded(p) == up[p].pc = "responded"

\* C1: in every reachable state there is at most one attendance row per
\* (owning user, student, course), also when two saveToDatabase runs of the
\* same user with overlapping students and courses interleave at any round trip.
C1_UniqueAttendance ==
    \A a, b \in attendance :
        (a.user = b.user /\ a.student_id = b.student_id /\ a.course_id = b.course_id) => a = b

\* two runs of one user raced on the same pair: both passed the existence
\* check, both sent the row, and the table holds fewer rows than were sent
C1_Witness ==
    /\ Responded(1) /\ Responded(2)
    /\ up[1].user = "u1" /\ up[2].user = "u1"
    /\ up[1].files = <<GoodFile(DataA)>> /\ up[2].files = <<GoodFile(DataB)>>
    /\ Len(up[1].file_logs) = 1 /\ Len(up[2].file_logs) = 1
    /\ up[1].file_logs[1].inserted = 2 /\ up[2].file_logs[1].inserted = 1
    /\ Cardinality({a \in attendance : a.user = "u1"}) = 2

\* C3 (as claimed): once the batched inserts are done the two maps hold
\* every incoming course code and registration number, and no qualifying
\* tuple of the file is dropped, whatever a concurrent upload of the same
\* user created in between.
C3_MapsComplete ==
    \A p \in UpSlots :
        LET r == up[p] IN
        /\ r.pc \in {"students_select", "students_insert", "attendance_select", "attendance_insert"}
              => Range(incomingCourseCodes(Data(r))) \subseteq DOMAIN r.courseMap
        /\ r.pc \in {"attendance_select", "attendance_insert"}
              => incomingRegNos(Data(r)) \subseteq DOMAIN r.studentMap
        /\ \A k \in DOMAIN r.file_logs :
              r.file_logs[k].inserted + r.file_logs[k].skipped_duplicate
                  = r.file_logs[k].total_in_file - r.file_logs[k].skipped_min_periods

\* C5: every attendance row ever persisted has conducted_periods >= 5.
C5_MinConducted == \A a \in attendance : a.conducted >= 5

\* a file with a tuple below the minimum was committed next to stored rows
C5_Witness ==
    \E p \in UpSlots :
        /\ Responded(p)
        /\ Len(up[p].file_logs) = 1
        /\ up[p].file_logs[1].skipped_min_periods > 0
        /\ up[p].file_logs[1].inserted > 0
        /\ attendance # {}

\* C6: an attendance row that exists keeps its attended, conducted and
\* percentage values through every step in which it is not deleted, whatever
\* a later upload of the same user carries for the same student and course.
C6_NoOverwrite ==
    [][\A a \in attendance : \A b \in attendance' :
          (b.user = a.user /\ b.student_id = a.student_id /\ b.course_id = a.course_id)
             => b = a]_vars

\* DataB answered for u1 (one tuple a duplicate or a lost conflict) while the
\* stored row of r1 still carries DataA's 30 of 40
C6_Witness ==
    \E p \in UpSlots :
        /\ Responded(p)
        /\ up[p].user = "u1"
        /\ up[p].files = <<GoodFile(DataB)>>
        /\ up[p].response = "ok200"
        /\ \E a \in attendance : a.user = "u1" /\ a.attended = 30 /\ a.conducted = 40 /\ a.pct = 75

\* the insert that slot p is about to send carries a row whose unique key
\* has been inserted since this run looked for it
ConflictingInsert(p) ==
    LET r == up[p] IN
    \/ /\ r.pc = "courses_insert"
       /\ \E k \in DOMAIN r.newCourseCodes : CourseConflict(courses, r.user, r.newCourseCodes[k])
    \/ /\ r.pc = "students_insert"
       /\ \E k \in DOMAIN r.newStudents : StudentConflict(students, r.user, r.newStudents[k].reg)
    \/ /\ r.pc = "attendance_insert"
       /\ \E k \in DOMAIN r.toInsert :
             AttendanceConflict(attendance, r.user, r.toInsert[k].student_id, r.toInsert[k].course_id)

\* C15: an insert of courses, students or attendance rows that meets a row
\* with the same unique key, inserted by another upload after this run's
\* existence check, raises nothing: the attempt goes on, no error is caught,
\* no retry starts, and the run that sent the attendance insert returns success.
C15_ConflictSwallowed ==
    [][\A p \in UpSlots :
          (ConflictingInsert(p) /\ up'[p] # up[p]) =>
             /\ up'[p].error = "none"
             /\ up'[p].errors = up[p].errors
             /\ up'[p].attempt = up[p].attempt \/ up'[p].idx > up[p].idx
             /\ up'[p].response # "error500"
             /\ up[p].pc = "courses_insert" => up'[p].pc = "students_select"
             /\ up[p].pc = "attendance_insert" => up'[p].processed = up[p].processed + 1]_vars

\* both runs of u1 found no course and no student, both sent the inserts, and
\* both returned success while the tables hold one course and two students
C15_Witness ==
    /\ Responded(1) /\ Responded(2)
    /\ up[1].user = "u1" /\ up[2].user = "u1"
    /\ up[1].response = "ok200" /\ up[2].response = "ok200"
    /\ Len(up[1].file_logs) = 1 /\ Len(up[2].file_logs) = 1
    /\ up[1].file_logs[1].courses_new = 1 /\ up[2].file_logs[1].courses_new = 1
    /\ up[1].file_logs[1].students_new = 2 /\ up[2].file_logs[1].students_new = 2
    /\ Cardinality({c \in courses : c.user = "u1"}) = 1
    /\ Cardinality({x \in students : x.user = "u1"}) = 2

\* C16 (as claimed): in the metrics of every successful run total_in_file
\* is the number of tuples of the file, skipped_min_periods the number of
\* them with conducted_periods < 5, and inserted + skipped_duplicate +
\* skipped_min_periods + d = total_in_file, where d is the number of tuples
\* whose student or course did not resolve.
C16_MetricsAddUp ==
    \A p \in UpSlots : \A k \in DOMAIN up[p].file_logs :
        LET m      == up[p].file_logs[k]
            tuples == up[p].files[k].data.attendance
        IN  /\ m.total_in_file = Len(tuples)
            /\ m.skipped_min_periods = Len(SelectSeq(tuples, LAMBDA a : a.conducted < 5))
            /\ m.inserted + m.skipped_duplicate + m.skipped_min_periods + m.unresolved
                  = m.total_in_file

----------------------------------------------------------------------------
(* Claims checked under SpecSeq (one request at a time). *)

\* the handler is inside saveToDatabase for a file equal to the one it
\* committed just before, for the same user and with nothing in between
Rerun(r) == r.pc \in SavePcs /\ r.idx > 1 /\ r.files[r.idx] = r.files[r.idx - 1]

\* C2: a second saveToDatabase run with the same file data and user, right
\* after the first, changes no student, course or attendance row, succeeds,
\* and reports inserted = 0 and skipped_duplicate = the number of the file's
\* tuples with conducted_periods >= 5.
C2_Idempotent ==
    [][Rerun(up[1]) =>
          /\ students' = students /\ courses' = courses /\ attendance' = attendance
          /\ up'[1].response # "error500"
          /\ Len(up'[1].file_logs) > Len(up[1].file_logs) =>
                LET m == up'[1].file_logs[Len(up'[1].file_logs)]
                    d == Data(up[1])
                IN  /\ m.inserted = 0
                    /\ m.skipped_duplicate =
                          Len(SelectSeq(d.attendance, LAMBDA a : a.conducted >= 5))]_vars

\* the file with two qualifying tuples of one pair went through twice
C2_Witness ==
    /\ Responded(1)
    /\ up[1].files = <<GoodFile(DataC), GoodFile(DataC)>>
    /\ Len(up[1].file_logs) = 2
    /\ up[1].file_logs[1].inserted = 2
    /\ up[1].file_logs[2].inserted = 0
    /\ up[1].file_logs[2].skipped_duplicate = 2
    /\ Cardinality(attendance) = 1

\* C17: while saveToDatabase runs for a file that has no tuple with
\* conducted_periods >= 5, no step changes attendance_records or reaches the
\* existing-attendance lookup or the attendance insert, and the run returns
\* success with inserted = 0, skipped_duplicate = 0 and skipped_min_periods
\* = total_in_file.
C17_ShortCircuit ==
    [][(/\ up[1].pc \in SavePcs
        /\ \A k \in DOMAIN Data(up[1]).attendance : Data(up[1]).attendance[k].conducted < 5)
          => /\ attendance' = attendance
             /\ up'[1].pc \notin {"attendance_select", "attendance_insert"}
             /\ up'[1].errors = up[1].errors
             /\ up'[1].idx > up[1].idx =>
                   LET m == up'[1].file_logs[Len(up'[1].file_logs)] IN
                   /\ up'[1].processed = up[1].processed + 1
                   /\ m.inserted = 0
                   /\ m.skipped_duplicate = 0
                   /\ m.total_in_file = Len(Data(up[1]).attendance)
                   /\ m.skipped_min_periods = m.total_in_file]_vars

\* a file whose only tuple has 3 conducted periods was committed after a
\* file that stored two rows, and the two rows are all there is
C17_Witness ==
    /\ Responded(1)
    /\ up[1].files = <<GoodFile(DataA), GoodFile(DataE)>>
    /\ up[1].response = "ok200"
    /\ Len(up[1].file_logs) = 2
    /\ up[1].file_logs[2].inserted = 0
    /\ up[1].file_logs[2].skipped_min_periods = 1
    /\ up[1].file_logs[2].total_in_file = 1
    /\ Cardinality(attendance) = 2

\* C18: once saveToDatabase has returned success for a file, with no other
\* writer, the user has exactly one student row for every registration
\* number of the file and exactly one course row for every course code of
\* the file, whether or not a tuple of the file qualified.
C18_OneRowPerKey ==
    \A k \in DOMAIN up[1].file_logs :
        LET d == up[1].files[k].data
            u == up[1].user
        IN  /\ \A reg \in incomingRegNos(d) :
                  Cardinality({x \in students : x.user = u /\ x.reg = reg}) = 1
            /\ \A code \in Range(incomingCourseCodes(d)) :
                  Cardinality({c \in courses : c.user = u /\ c.code = code}) = 1

\* the first file ever: two students and one course, both tuples stored
C18_Witness ==
    /\ Responded(1)
    /\ started = 1
    /\ up[1].files = <<GoodFile(DataA)>>
    /\ up[1].file_logs[1].total_in_file = 2
    /\ up[1].file_logs[1].inserted = 2
    /\ up[1].file_logs[1].skipped_duplicate = 0
    /\ Cardinality(students) = 2
    /\ Cardinality(courses) = 1

\* C29: within one upload request the files are handled one after another:
\* every row a step of the request inserts belongs to the file the handler
\* is at, the handler moves to a later file only in the step in which
\* saveToDatabase of the current file returns, and the save of the next
\* file then starts from its first query with fresh maps and lists.
C29_OneFileAtATime ==
    [][\A p \in UpSlots :
          LET r  == up[p]
              r2 == up'[p]
              d  == Data(r)
          IN  (r.pc \in SavePcs /\ r2 # r) =>
                 /\ r2.idx >= r.idx
                 /\ \A c \in courses' \ courses :
                       \E k \in DOMAIN d.courses : d.courses[k].code = c.code
                 /\ \A s \in students' \ students :
                       \E k \in DOMAIN d.students : d.students[k].reg = s.reg
                 /\ \A a \in attendance' \ attendance :
                       \E k \in DOMAIN d.attendance :
                           /\ d.attendance[k].attended = a.attended
                           /\ d.attendance[k].conducted = a.conducted
                           /\ d.attendance[k].pct = a.pct
                 /\ r2.idx # r.idx =>
                       /\ r2.processed = r.processed + 1
                       /\ Len(r2.file_logs) = Len(r.file_logs) + 1
                       /\ r2.pc \in SavePcs =>
                             /\ r2.pc = "courses_select" /\ r2.attempt = 0
                             /\ r2.courseMap = EmptyMap /\ r2.studentMap = EmptyMap
                             /\ r2.newCourseCodes = <<>> /\ r2.newStudents = <<>>
                             /\ r2.attendanceSet = {} /\ r2.toInsert = <<>>]_vars

\* the second file of a request is about to insert its records after the
\* first file, of other content, was saved and logged
C29_Witness ==
    \E p \in UpSlots :
        /\ Len(up[p].files) = 2 /\ up[p].idx = 2
        /\ up[p].files[1] # up[p].files[2]
        /\ up[p].pc = "attendance_insert"
        /\ up[p].processed = 1 /\ Len(up[p].file_logs) = 1
        /\ up[p].file_logs[1].inserted > 0
        /\ attendance # {}

\* C35 (as claimed): in every successful saveToDatabase result students_new
\* and students_existing are not negative and add up to the number of
\* distinct registration numbers of the file, and courses_new and
\* courses_existing add up to the number of distinct course codes, also for
\* a file with one registration number on several rows.
C35_CountsAddUp ==
    \A p \in UpSlots : \A k \in DOMAIN up[p].file_logs :
        LET d == up[p].files[k].data
            m == up[p].file_logs[k]
        IN  /\ m.students_new >= 0 /\ m.students_existing >= 0
            /\ m.students_new + m.students_existing
                  = Cardinality({d.students[i].reg : i \in DOMAIN d.students})
            /\ m.courses_new >= 0 /\ m.courses_existing >= 0
            /\ m.courses_new + m.courses_existing
                  = Cardinality({d.courses[i].code : i \in DOMAIN d.courses})

\* C36: the inserted count that a successful saveToDatabase returns is the
\* number of attendance rows that this run added to the table, also when the
\* file holds two tuples of one student and course, and when another upload
\* inserted the same pair after this run's existence check.
C36_InsertedIsAdded ==
    [][\A p \in UpSlots :
          Len(up'[p].file_logs) = Len(up[p].file_logs) + 1 =>
             up'[p].file_logs[Len(up'[p].file_logs)].inserted
                 = Cardinality(attendance' \ attendance)]_vars

----------------------------------------------------------------------------
(* Claims checked under SpecScope (two users). *)

\* C4: no read invoked for a user returns or counts a student, course or
\* attendance record of another user, whether the result was computed from
\* the database or taken from the cache, and no cache entry of a user's key
\* holds data computed from another user's rows.
C4_Scoped ==
    /\ \A q \in RdSlots : rd[q].owners \subseteq {rd[q].user}
    /\ \A key \in DOMAIN cache : cache[key].owners \subseteq {key[2]}

\* u1 was served its own statistics from the cache while u2 holds rows of
\* the same content
C4_Witness ==
    \E q \in RdSlots :
        /\ rd[q].pc = "returned" /\ rd[q].hit
        /\ rd[q].user = "u1" /\ rd[q].owners = {"u1"}
        /\ rd[q].op = "calculateDashboardStats" /\ rd[q].data.total_students = 2
        /\ Cardinality({a \in attendance : a.user = "u2"}) = 2

\* the rows of the three tables that user u owns
RowsOf(u, studs, crs, att) ==
    <<{x \in studs : x.user = u}, {x \in crs : x.user = u}, {x \in att : x.user = u}>>

\* C23: clearAllData(U) removes U's attendance records, then U's students,
\* then U's courses; no step of it changes a row of another user, and when
\* it returns true with no other writer, U owns no student, course or
\* attendance row.
C23_ClearAll ==
    /\ [](\A a \in AdmSlots :
            LET own == RowsOf(adm[a].user, students, courses, attendance) IN
            adm[a].op = "clear" =>
               /\ adm[a].pc \in {"clear_students", "clear_courses", "clear_return"} => own[3] = {}
               /\ adm[a].pc \in {"clear_courses", "clear_return"} => own[1] = {}
               /\ adm[a].pc = "clear_return" => own[2] = {})
    /\ [][\A a \in AdmSlots :
             (adm'[a] # adm[a] /\ adm'[a].op = "clear") =>
                /\ \A u \in Users \ {adm'[a].user} :
                      RowsOf(u, students', courses', attendance')
                         = RowsOf(u, students, courses, attendance)
                /\ adm'[a].pc = "returned" =>
                      /\ adm'[a].result = "true"
                      /\ RowsOf(adm'[a].user, students', courses', attendance')
                            = <<{}, {}, {}>>]_vars

\* u1's data was cleared (the clear changed the tables and returned true)
\* while u2 still holds its two students, its course and its two records
C23_Witness ==
    /\ adm[1].pc = "returned" /\ adm[1].op = "clear" /\ adm[1].user = "u1"
    /\ adm[1].result = "true"
    /\ adm[1].lastWrite > 0
    /\ RowsOf("u1", students, courses, attendance) = <<{}, {}, {}>>
    /\ Cardinality({x \in students : x.user = "u2"}) = 2
    /\ Cardinality({x \in courses : x.user = "u2"}) = 1
    /\ Cardinality({x \in attendance : x.user = "u2"}) = 2

\* the four counts of a statistics result
Counts(data) ==
    <<data.total_students, data.total_courses,
      data.low_attendance_count, data.critical_attendance_count>>

StatsOps == {"calculateDashboardStats", "calculateFilteredStats"}

----------------------------------------------------------------------------
(* Claims checked under SpecCache (reads in flight against writers). *)

\* C7 (as claimed): a calculateDashboardStats or getAllCourses call of a
\* user issued after a clearAllData of that user returned true returns data
\* the database produced after the clear's changes, never a value computed
\* before them.
C7_FreshAfterClear ==
    \A q \in RdSlots :
        (rd[q].pc = "returned" /\ rd[q].op \in CachedOps) => rd[q].gen >= rd[q].clearGen

\* C8 (as claimed): no cache entry holds a result computed before a change
\* whose invalidation has already run, and every cached read issued after an
\* invalidation returns data computed after the change it belongs to.
C8_CacheSafe ==
    /\ \A key \in DOMAIN cache : cache[key].gen >= invalidatedAt
    /\ \A q \in RdSlots :
          (rd[q].pc = "returned" /\ rd[q].op \in CachedOps) => rd[q].gen >= rd[q].need

\* the cache key and the ttl the two cached reads pass to cached()
KeyOf(r) ==
    IF r.op = "calculateDashboardStats" THEN <<"dashboard_stats", r.user>>
    ELSE <<"all_courses", r.user>>

TtlOf(r) == IF r.op = "calculateDashboardStats" THEN 60000 ELSE 300000

\* C30: cached(key, fn, ttl) returns the stored value without running fn
\* exactly when an entry for key exists and is younger than ttl (60 s for
\* the dashboard statistics, 300 s for the course list); otherwise it runs
\* fn once and stores the result stamped with the time of the store.
C30_Cached ==
    [][\A q \in RdSlots :
          LET r   == rd[q]
              r2  == rd'[q]
              key == KeyOf(r2)
              young == key \in DOMAIN cache /\ now - cache[key].timestamp < TtlOf(r2)
          IN  /\ (r2 # r /\ r.pc \in {"idle", "returned"} /\ r2.op \in CachedOps) =>
                    IF young
                    THEN r2.pc = "returned" /\ r2.hit /\ r2.data = cache[key].data
                         /\ cache' = cache
                    ELSE r2.pc = "query" /\ ~r2.hit /\ cache' = cache
              /\ (r2 # r /\ r.pc = "query" /\ r.op \in CachedOps) => r2.pc = "store"
              /\ (r2 # r /\ r.pc = "store") =>
                    /\ r2.pc = "returned" /\ r2.data = r.data /\ ~r2.hit
                    /\ KeyOf(r) \in DOMAIN cache'
                    /\ cache'[KeyOf(r)].data = r.data
                    /\ cache'[KeyOf(r)].timestamp = now]_vars

\* the course list stored at time 0 was served from the cache 60 s later,
\* an age at which the statistics entry is no longer served
C30_Witness ==
    \E q \in RdSlots :
        /\ rd[q].op = "getAllCourses" /\ rd[q].pc = "returned" /\ rd[q].hit
        /\ now = 60000
        /\ cache[<<"all_courses", rd[q].user>>].timestamp = 0
        /\ rd[q].data = cache[<<"all_courses", rd[q].user>>].data

----------------------------------------------------------------------------
(* Claims checked under SpecReq (requests with failing files). *)

\* C9 (as claimed): the step that sends the response of a request that has
\* committed at least one file leaves the cache empty.
C9_InvalidatedOnCommit ==
    [][\A p \in UpSlots :
          (up[p].pc # "responded" /\ up'[p].pc = "responded" /\ up'[p].processed > 0)
             => DOMAIN cache' = {}]_vars

\* C10 (as claimed): a request is answered only after the handler has been
\* at every one of its files.
C10_AllAttempted ==
    \A p \in UpSlots : Responded(p) => up[p].idx >= Len(up[p].files)

\* C11 (as claimed): a request is answered with overall success exactly
\* when at least one of its files was processed successfully; the error
\* answer is given only when none was.
C11_SuccessIffProcessed ==
    \A p \in UpSlots :
        Responded(p) => (up[p].response = "ok200" <=> up[p].processed > 0)

----------------------------------------------------------------------------
(* Claims checked under SpecFail and FairSpecFail (queries that reject). *)

\* the step in which the saveToDatabase call of slot p returns to the handler
Returns(p) ==
    /\ up[p].pc \in SavePcs
    /\ up'[p].pc \notin SavePcs

\* C12: saveToDatabase always comes back with a result: it runs its sequence
\* at most maxRetries = 2 times, it returns success when an attempt runs to
\* its end, and it returns success = false with the caught error only when
\* the second attempt failed; nothing is thrown to the handler.
C12_BoundedRetry ==
    /\ [](\A p \in UpSlots : up[p].pc \in SavePcs => up[p].attempt \in 0 .. (maxRetries - 1))
    /\ [][\A p \in UpSlots : Returns(p) =>
             \/ /\ up'[p].processed = up[p].processed + 1
                /\ up'[p].errors = up[p].errors
                /\ Len(up'[p].file_logs) = Len(up[p].file_logs) + 1
             \/ /\ up'[p].processed = up[p].processed
                /\ up'[p].errors = up[p].errors + 1
                /\ up[p].attempt = maxRetries - 1
                /\ up'[p].error \in ErrorKinds
                /\ up'[p].response = "error500"]_vars
    /\ \A p \in UpSlots : (up[p].pc \in SavePcs) ~> (up[p].pc \notin SavePcs)

\* a file was given up after its second attempt was rejected as well
C12_Witness ==
    /\ Responded(1)
    /\ up[1].attempt = maxRetries - 1
    /\ up[1].error \in ErrorKinds
    /\ up[1].errors = 1
    /\ up[1].processed = 0
    /\ up[1].response = "error500"

\* C13 (as claimed): an attempt after the first one is only made when the
\* error caught before it was a transient one.
C13_RetryOnlyTransient ==
    \A p \in UpSlots : (up[p].pc \in SavePcs /\ up[p].attempt > 0) => up[p].error = "transient"

\* C14 (as claimed): when the only saveToDatabase call made so far has
\* returned success = false, no student, course or attendance row of its
\* file is in the database.
C14_AllOrNothing ==
    (started = 1 /\ Responded(1) /\ up[1].errors = 1 /\ up[1].processed = 0)
        => (students = {} /\ courses = {} /\ attendance = {})

----------------------------------------------------------------------------
(* Claims checked under SpecSheet (parsed worksheets). *)

\* the text contains the word, in any casing
Mentions(text, word) == includes(toUpperCase(Chars(text)), toUpperCase(Chars(word)))

\* the rows that are to be rejected, by registration number and name
Rejected(reg, name) ==
    \/ reg = ""
    \/ toUpperCase(Chars(reg)) \in {Chars("UNDEFINED"), Chars("NAN"), Chars("-")}
    \/ \E word \in {"cumulative", "Summary", "TOTAL"} : Mentions(reg, word) \/ Mentions(name, word)

\* C19 (as claimed): the data extracted from a worksheet holds no student
\* and no attendance tuple of a row whose registration number is blank or
\* equals undefined, nan or - in any casing, or whose student name or
\* registration number contains cumulative, total or summary in any casing.
C19_RowsRejected ==
    \A p \in UpSlots : \A f \in DOMAIN up[p].files :
        LET sheet == up[p].files[f].sheet
            data  == up[p].files[f].data
            bad   == {CellText(Cell(sheet.rows[i], 2)) : i \in
                         {i \in DOMAIN sheet.rows :
                             Rejected(CellText(Cell(sheet.rows[i], 2)),
                                      CellText(Cell(sheet.rows[i], 3)))}}
        IN  /\ \A k \in DOMAIN data.students : data.students[k].reg \notin bad
            /\ \A k \in DOMAIN data.attendance : data.attendance[k].reg \notin bad

\* the header's Attended columns
AttendedCols(sheet) ==
    {a \in DOMAIN sheet.headerRow :
        sheet.headerRow[a].kind = "string" /\ Mentions(sheet.headerRow[a].s, "Attended")}

\* the position of x in the set of columns, counted from the left
RankIn(x, cols) == Cardinality({y \in cols : y < x}) + 1

\* the pairs (course column, Attended column) of equal position
Pairing(sheet) ==
    {pr \in (DOMAIN sheet.coursesInfo) \X AttendedCols(sheet) :
        RankIn(pr[1], DOMAIN sheet.coursesInfo) = RankIn(pr[2], AttendedCols(sheet))}

\* C20: the i-th detected course from the left is read from the i-th
\* Attended column from the left and the two columns after it: every
\* extracted tuple carries the attended and conducted cells of such a pair,
\* every pair gives a tuple for an accepted row, and a course beyond the
\* number of Attended columns gets no tuple.
C20_LeftToRight ==
    \A p \in UpSlots : \A f \in DOMAIN up[p].files :
        LET sheet == up[p].files[f].sheet
            data  == up[p].files[f].data
        IN  /\ \A k \in DOMAIN data.attendance :
                  LET t == data.attendance[k] IN
                  \E pr \in Pairing(sheet), i \in DOMAIN sheet.rows :
                      /\ sheet.coursesInfo[pr[1]].code = t.code
                      /\ CellText(sheet.rows[i][2]) = t.reg
                      /\ sheet.rows[i][pr[2]].n = t.attended
                      /\ sheet.rows[i][pr[2] + 1].n = t.conducted
                      /\ sheet.rows[i][pr[2] + 2].kind = "number" =>
                            sheet.rows[i][pr[2] + 2].n = t.pct
            /\ \A pr \in Pairing(sheet) :
                  \E k \in DOMAIN data.attendance :
                      /\ data.attendance[k].reg = "r2"
                      /\ data.attendance[k].code = sheet.coursesInfo[pr[1]].code
                      /\ data.attendance[k].attended = sheet.rows[1][pr[2]].n

\* a sheet with one Attended column and two detected courses, the later
\* code on the left, was saved: both courses exist and every tuple is of c2
C20_Witness ==
    /\ Responded(1)
    /\ up[1].response = "ok200"
    /\ up[1].files[1].sheet.headerRow = HeaderOne
    /\ DOMAIN up[1].files[1].sheet.coursesInfo = {5, 8}
    /\ up[1].files[1].data.attendance # <<>>
    /\ \A k \in DOMAIN up[1].files[1].data.attendance :
          up[1].files[1].data.attendance[k].code = "c2"
    /\ Cardinality(courses) = 2
    /\ attendance # {}

\* C21: the percentage of an extracted tuple is the number in the row's
\* percentage cell when the cell holds one, and otherwise attended /
\* conducted * 100, or 0 when conducted is 0.
C21_Percentage ==
    \A p \in UpSlots : \A f \in DOMAIN up[p].files :
        LET sheet == up[p].files[f].sheet
            data  == up[p].files[f].data
        IN  \A k \in DOMAIN data.attendance :
                LET t == data.attendance[k] IN
                \A pr \in Pairing(sheet), i \in DOMAIN sheet.rows :
                    (sheet.coursesInfo[pr[1]].code = t.code /\ CellText(sheet.rows[i][2]) = t.reg)
                       => LET cell == Cell(sheet.rows[i], pr[2] + 2) IN
                          IF cell.kind = "number"
                          THEN t.pct = cell.n
                          ELSE IF t.conducted > 0
                               THEN t.pct * t.conducted = t.attended * 100
                               ELSE t.pct = 0

\* the row with 30 of 40 periods and a blank percentage cell was stored
\* with 75
C21_Witness ==
    /\ Responded(1)
    /\ up[1].files[1].sheet.rows[2][4] = N(30)
    /\ up[1].files[1].sheet.rows[2][5] = N(40)
    /\ up[1].files[1].sheet.rows[2][6] = Empty
    /\ \E k \in DOMAIN up[1].files[1].data.attendance :
          up[1].files[1].data.attendance[k] = At("r1", "c1", 30, 40, 75)
    /\ \E a \in attendance : a.attended = 30 /\ a.conducted = 40 /\ a.pct = 75

\* C22 (as claimed): every stored attendance row has a percentage between
\* 0 and 100 inclusive, whatever the cells of the uploaded sheet hold.
C22_PercentageRange == \A a \in attendance : a.pct >= 0 /\ a.pct <= 100

\* C28 (as claimed): extractCourseInfoFromHeader returns exactly the
\* column-to-course mapping of the one row among the scanned rows 4..7 that
\* has the most cells matching the course pattern, with no entry taken from
\* another scanned row.
C28_BestRowOnly ==
    \A p \in UpSlots : \A f \in DOMAIN up[p].files :
        LET top  == up[p].files[f].sheet.top
            best == {k \in DOMAIN top :
                        \A m \in DOMAIN top \ {k} :
                            Cardinality(DOMAIN top[m]) < Cardinality(DOMAIN top[k])}
        IN  \A k \in best : extractCourseInfoFromHeader(top) = top[k]

\* C31 (as claimed): the mapping extractCourseInfoFromHeader returns never
\* holds one course code at two columns, and the column it holds a code at
\* is that of the code's first occurrence in the scanned rows (rows from the
\* top, cells from the left).
C31_FirstOccurrence ==
    \A p \in UpSlots : \A f \in DOMAIN up[p].files :
        LET top  == up[p].files[f].sheet.top
            info == extractCourseInfoFromHeader(top)
        IN  /\ \A a, b \in DOMAIN info : a # b => info[a].code # info[b].code
            /\ \A col \in DOMAIN info :
                  \E k \in DOMAIN top :
                      /\ col \in DOMAIN top[k]
                      /\ top[k][col].code = info[col].code
                      /\ \A m \in DOMAIN top : \A c \in DOMAIN top[m] :
                            top[m][c].code = info[col].code =>
                               m > k \/ (m = k /\ c >= col)

----------------------------------------------------------------------------
(* Claims checked under SpecQuery (filtered reads). *)

\* the joined rows matching the course, excluded-course and search filters
\* of a call, whatever its threshold
Filtered(u, args) ==
    {j \in Joined :
        /\ j.a.student_id = j.s.id /\ j.a.course_id = j.c.id /\ j.a.user = u
        /\ args.courseCode = "" \/ j.c.code = args.courseCode
        /\ j.c.code \notin args.excludeCourses
        /\ args.search = "" \/ ILike(j.s.name, args.search) \/ ILike(j.s.reg, args.search)}

\* the step in which call q of calculateFilteredStats returns
FsReturns(q) ==
    /\ rd'[q] # rd[q]
    /\ rd'[q].pc = "returned"
    /\ rd'[q].op = "calculateFilteredStats"

\* C25: calculateFilteredStats returns as low_attendance_count the number
\* of the user's records matching the course, excluded-course and search
\* filters whose percentage is below 75 and as critical_attendance_count
\* the number of those below 65, whatever the threshold argument is; so
\* critical_attendance_count never exceeds low_attendance_count.
C25_FixedLimits ==
    [][\A q \in RdSlots :
          FsReturns(q) =>
             LET r   == rd'[q]
                 rec == {j.a : j \in Filtered(r.user, r.args)}
             IN  /\ r.data.low_attendance_count = Cardinality({a \in rec : a.pct < 75})
                 /\ r.data.critical_attendance_count = Cardinality({a \in rec : a.pct < 65})
                 /\ r.data.critical_attendance_count <= r.data.low_attendance_count]_vars

\* with threshold 65 over every course, the records at 70% and 60% are
\* counted low and the one at 60% critical
C25_Witness ==
    \E q \in RdSlots :
        /\ rd[q].pc = "returned" /\ rd[q].op = "calculateFilteredStats"
        /\ rd[q].args.threshold = 65 /\ rd[q].args.courseCode = ""
        /\ {j.a.pct : j \in Filtered(rd[q].user, rd[q].args)} = {75, 70, 60}
        /\ rd[q].data.low_attendance_count = 2
        /\ rd[q].data.critical_attendance_count = 1

\* C26 (as claimed): whenever the course, excluded-course or search filter
\* of calculateFilteredStats narrows the matching records to exactly one
\* distinct student, the result has is_single_student = true,
\* student_details holds that student's name and registration number, and
\* student_course_info is set.
C26_SingleStudent ==
    [][\A q \in RdSlots :
          FsReturns(q) =>
             LET r  == rd'[q]
                 ss == {j.s : j \in Filtered(r.user, r.args)}
             IN  Cardinality(ss) = 1 =>
                    /\ r.data.is_single_student
                    /\ r.data.student_details
                          = [name |-> (CHOOSE x \in ss : TRUE).name,
                             registration_no |-> (CHOOSE x \in ss : TRUE).reg]
                    /\ r.data.student_course_info # Null]_vars

\* the rows getFilteredAttendanceRecords and getFilteredAttendanceCount
\* select: the filters and, below 100, the threshold
Listed(u, args) ==
    {j \in Filtered(u, args) : args.threshold < 100 => j.a.pct < args.threshold}

\* the place of row j among the rows of set in the order of the key
\* (course code, attendance percentage, registration number)
Place(j, set) == 1 + Cardinality({k \in set : RecordLess(k, j)})

\* C27 (as claimed): getFilteredAttendanceRecords orders the matching records
\* by (course code, attendance percentage, registration number) ascending,
\* no two matching records of a user tie on that key, and the call for page
\* n returns exactly the records at places (n-1)*per_page+1 .. n*per_page of
\* that order, so that the pages 1..ceil(total / per_page) together hold
\* every matching record exactly once.
C27_Pages ==
    [][\A q \in RdSlots :
          (/\ rd'[q] # rd[q]
           /\ rd'[q].pc = "returned"
           /\ rd'[q].op = "getFilteredAttendanceRecords")
          => LET r     == rd'[q]
                 set   == Listed(r.user, r.args)
                 first == (r.args.page - 1) * r.args.perPage
             IN  /\ \A j, k \in set : j # k => RecordLess(j, k) \/ RecordLess(k, j)
                 /\ "rows" \in DOMAIN r.data
                 /\ Len(r.data.rows) <= r.args.perPage
                 /\ \A j \in set :
                       (Place(j, set) > first /\ Place(j, set) <= first + r.args.perPage)
                       <=> /\ Place(j, set) - first \in DOMAIN r.data.rows
                           /\ r.data.rows[Place(j, set) - first] = RecordOf(j)
                 /\ \A i \in DOMAIN r.data.rows :
                       \E j \in set : r.data.rows[i] = RecordOf(j)]_vars

----------------------------------------------------------------------------
(* Claims checked under SpecAdmin (uploads against clears and deletes). *)

\* the record ids a caller may pass: those of the rows and one of no row
RecordIds == {x.id : x \in attendance} \cup {0}

\* C32: deleteAttendanceRecord(U, id) removes exactly the attendance records
\* with that id that U owns (at most one), changes no student, no course,
\* no other record of U and no row of another user, and returns true
\* exactly when it removed a row.
C32_DeleteOne ==
    [][\A a \in AdmSlots :
          /\ \A u \in Users : \A id \in RecordIds :
                DeleteRecord(a, u, id) =>
                   /\ attendance \ attendance' = {x \in attendance : x.id = id /\ x.user = u}
                   /\ Cardinality(attendance \ attendance') <= 1
                   /\ attendance' \subseteq attendance
                   /\ students' = students /\ courses' = courses
                   /\ adm'[a].rowCount = Cardinality(attendance \ attendance')
          /\ (adm[a].pc = "delete_return" /\ adm'[a] # adm[a]) =>
                /\ adm'[a].pc = "returned"
                /\ adm'[a].result = (IF adm[a].rowCount > 0 THEN "true" ELSE "false")
                /\ <<students', courses', attendance'>> = <<students, courses, attendance>>]_vars

\* u1 deleted one of its two records and got true while u2 holds two
\* records of the same content
C32_Witness ==
    \E a \in AdmSlots :
        /\ adm[a].pc = "returned" /\ adm[a].op = "delete" /\ adm[a].user = "u1"
        /\ adm[a].result = "true" /\ adm[a].rowCount = 1
        /\ Cardinality({x \in attendance : x.user = "u1"}) = 1
        /\ Cardinality({x \in attendance : x.user = "u2"}) = 2
        /\ Cardinality({x \in students : x.user = "u1"}) = 2

\* C33: in every reachable state, with saveToDatabase interleaved with
\* clearAllData and deleteAttendanceRecord of the same user, each
\* attendance record references a student row and a course row that exist
\* and are owned by the record's user.
C33_References ==
    \A x \in attendance :
        /\ \E s \in students : s.id = x.student_id /\ s.user = x.user
        /\ \E c \in courses : c.id = x.course_id /\ c.user = x.user

\* an upload of u1 had its attendance insert rejected because a clear of
\* u1 removed the rows it refers to, while records of u2 remain
C33_Witness ==
    \E p \in UpSlots, a \in AdmSlots :
        /\ up[p].user = "u1" /\ up[p].error = "permanent"
        /\ adm[a].op = "clear" /\ adm[a].user = "u1" /\ adm[a].lastWrite > 0
        /\ {x \in attendance : x.user = "u2"} # {}

----------------------------------------------------------------------------
(* Claims checked under SpecRetry (a retried save). *)

\* the database the request started on: no upload of this specification
\* brings the student of DataD
StartDb ==
    IF \E x \in students : x.reg = "r3" THEN SavedOnce(EmptyDb, "u1", DataD) ELSE EmptyDb

\* C34: when saveToDatabase succeeds, on its first attempt or on the second
\* after the first failed at any of its queries, the tables hold what a run
\* whose first attempt succeeds leaves on the same starting state.
C34_RetrySameContent ==
    (Responded(1) /\ up[1].processed = 1) =>
        LET end == SavedOnce(StartDb, up[1].user, up[1].files[1].data)
        IN  <<students, courses, attendance>> = <<end.students, end.courses, end.attendance>>

\* DataC was saved on the second attempt over the earlier upload: the first
\* attempt had added the new course and the new student before it failed,
\* so the successful attempt found them existing
C34_Witness ==
    /\ Responded(1) /\ up[1].processed = 1 /\ up[1].response = "ok200"
    /\ up[1].attempt = 1 /\ up[1].error \in ErrorKinds
    /\ up[1].files[1] = GoodFile(DataC)
    /\ up[1].file_logs[1].courses_new = 0 /\ up[1].file_logs[1].students_new = 0
    /\ up[1].file_logs[1].inserted > 0
    /\ Cardinality(courses) = 2 /\ Cardinality(students) = 2

----------------------------------------------------------------------------
(* Claims checked under SpecClearFail (clears and deletes that can fail). *)

\* C37: when clearAllData or deleteAttendanceRecord has removed at least one
\* row of the user, the statistics cache has been invalidated by the time
\* the operation returns, whether it returns true or false: no entry that
\* was computed before the removal is left in it.
C37_InvalidatedOnReturn ==
    [][\A a \in AdmSlots :
          (adm'[a] # adm[a] /\ adm'[a].pc = "returned" /\ adm'[a].lastWrite > 0) =>
             \A key \in DOMAIN cache' : cache'[key].gen >= adm'[a].lastWrite]_vars

====
